---- MODULE Spec2Model ----
(***************************************************************************)
(* The state engine of xplr (src/src/app.rs): the App aggregate, its task  *)
(* scheduler (a BinaryHeap<Task> with the inverted comparator), the        *)
(* internal and external message handlers, and the output queue.           *)
(*                                                                         *)
(* Conventions.                                                            *)
(*   - A Rust String is a sequence of one-character strings, so that       *)
(*     starts_with / contains / ends_with / to_lowercase / join are        *)
(*     computed, not assumed.                                              *)
(*   - Option<T> is a sequence of length <= 1: None == <<>>,               *)
(*     Some(x) == <<x>>.                                                   *)
(*   - A handler takes the App by value and returns Result<App>; here a    *)
(*     handler is an operator from an App record to a record               *)
(*     [res, app] with res "ok" (Ok), "err" (bail!) or "panic".            *)
(*   - usize is USIZE_MAX + 1 values wide; an addition that leaves the     *)
(*     range panics in a build with overflow checks and wraps otherwise.   *)
(***************************************************************************)
EXTENDS Integers, Sequences, FiniteSets, TLC

VARIABLES app, outcome, now, made, pushes, build, last, dispatched

vars == <<app, outcome, now, made, pushes, build, last, dispatched>>

(***************************************************************************)
(* Bounds of the model.                                                    *)
(***************************************************************************)
USIZE_MAX == 7

MaxSchedTasks == 4

MaxProducerTasks == 3

MaxTasks == 2

MaxFocusTasks == 3

MaxScenarioTasks == 6

MaxSelTasks == 5

MaxFilterTasks == 2

MaxModeTasks == 4

MaxNavTasks == 3

MaxStepTasks == 4

MaxKeyTasks == 2

MaxPending == 2

MaxEffectTasks == 3

MaxFromInputTasks == 3

MaxDirTasks == 4
\* The most tasks the session without a Listing enqueues.
MaxNoListingTasks == 4

None == <<>>

Some(x) == <<x>>

Range(s) == {s[i] : i \in 1..Len(s)}

Min(a, b) == IF a <= b THEN a ELSE b

Max(a, b) == IF a >= b THEN a ELSE b

(***************************************************************************)
(* Strings.                                                                *)
(***************************************************************************)
to_lowercase(s) ==
    LET LowerOf == [c \in {"A", "R", "E", "D", "M", "T"} |->
                      CASE c = "A" -> "a" [] c = "R" -> "r" [] c = "E" -> "e"
                        [] c = "D" -> "d" [] c = "M" -> "m" [] c = "T" -> "t"]
    IN  [i \in 1..Len(s) |-> IF s[i] \in DOMAIN LowerOf THEN LowerOf[s[i]] ELSE s[i]]

starts_with(s, p) == Len(p) <= Len(s) /\ SubSeq(s, 1, Len(p)) = p

ends_with(s, p) == Len(p) <= Len(s) /\ SubSeq(s, Len(s) - Len(p) + 1, Len(s)) = p

contains(s, p) == \E i \in 0..(Len(s) - Len(p)) : SubSeq(s, i + 1, i + Len(p)) = p

RECURSIVE join(_, _)
join(strs, sep) ==
    IF strs = <<>> THEN <<>>
    ELSE IF Len(strs) = 1 THEN strs[1]
    ELSE strs[1] \o sep \o join(Tail(strs), sep)

Digits == <<"0", "1", "2", "3", "4", "5", "6", "7", "8", "9">>

RECURSIVE DecimalVal(_)
DecimalVal(s) ==
    LET DigitVal(c) == (CHOOSE i \in 1..10 : Digits[i] = c) - 1
    IN  IF s = <<>> THEN 0
        ELSE 10 * DecimalVal(SubSeq(s, 1, Len(s) - 1)) + DigitVal(s[Len(s)])

\* str::parse::<usize>(): an optional leading "+", then one or more ASCII
\* digits, and the value has to fit; anything else is an Err (None here).
parse_usize(s) ==
    LET body == IF s # <<>> /\ s[1] = "+" THEN Tail(s) ELSE s
    IN  IF body # <<>> /\ (\A i \in 1..Len(body) : body[i] \in Range(Digits))
           /\ DecimalVal(body) <= USIZE_MAX
        THEN Some(DecimalVal(body))
        ELSE None

(***************************************************************************)
(* Paths (std::path::PathBuf over the strings above) and the file system   *)
(* the session runs on.                                                    *)
(***************************************************************************)
SLASH == <<"/">>

ROOT == <<"/">>

TMP == <<"/", "t", "m", "p">>

TMP_D == <<"/", "t", "m", "p", "/", "d">>

NOPE == <<"/", "n", "o">>

A_TXT == <<"a", ".", "t", "x", "t">>

B_TXT == <<"b", ".", "t", "x", "t">>

C_TXT == <<"c", ".", "t", "x", "t">>

D_DIR == <<"d">>

DOT_GIT == <<".", "g", "i", "t">>

README == <<"R", "E", "A", "D", "M", "E", ".", "m", "d">>

\* The directories that exist; every other path is not a directory.
Dirs == {ROOT, TMP, TMP_D}

is_dir(p) == p \in Dirs

RECURSIVE Split(_, _)
\* The "/"-separated pieces of p, empty pieces dropped; cur is the piece
\* being read.
Split(p, cur) ==
    IF p = <<>> THEN (IF cur = <<>> THEN <<>> ELSE <<cur>>)
    ELSE IF p[1] = "/" THEN (IF cur = <<>> THEN <<>> ELSE <<cur>>) \o Split(Tail(p), <<>>)
    ELSE Split(Tail(p), Append(cur, p[1]))

HasRoot(p) == p # <<>> /\ p[1] = "/"

\* Path::components(): the normal components; "." is dropped except as the
\* first component of a relative path.
Components(p) ==
    LET raw == Split(p, <<>>)
        keep == {i \in 1..Len(raw) : raw[i] # <<".">> \/ (i = 1 /\ ~HasRoot(p))}
        F[i \in 0..Len(raw)] ==
            IF i = 0 THEN <<>> ELSE IF i \in keep THEN Append(F[i - 1], raw[i]) ELSE F[i - 1]
    IN  F[Len(raw)]

FromComponents(root, comps) == (IF root THEN SLASH ELSE <<>>) \o join(comps, SLASH)

\* Path::parent(): None for "" and for a root; otherwise the path without
\* its last component.
path_parent(p) ==
    LET comps == Components(p)
    IN  IF comps = <<>> THEN None
        ELSE Some(FromComponents(HasRoot(p), SubSeq(comps, 1, Len(comps) - 1)))

\* Path::file_name(): the last component when it is a normal one.
path_file_name(p) ==
    LET comps == Components(p)
    IN  IF comps = <<>> \/ comps[Len(comps)] \in {<<".">>, <<".", ".">>} THEN None
        ELSE Some(comps[Len(comps)])

path_join(parent, rel) ==
    IF HasRoot(rel) THEN rel
    ELSE IF parent = <<>> \/ parent[Len(parent)] = "/" THEN parent \o rel
    ELSE parent \o SLASH \o rel

\* Path::extension(): the text after the last "." of the file name, when
\* the name does not begin with its only ".".
path_extension(name) ==
    LET dots == {i \in 2..Len(name) : name[i] = "."}
    IN  IF dots = {} THEN <<>>
        ELSE LET d == CHOOSE i \in dots : \A j \in dots : j <= i
             IN  SubSeq(name, d + 1, Len(name))

mime_of(ext) ==
    CASE ext = <<"t", "x", "t">> -> "text/plain"
      [] ext = <<"m", "d">> -> "text/markdown"
      [] OTHER -> ""

(***************************************************************************)
(* Node and DirectoryBuffer.                                               *)
(***************************************************************************)
\* Node::new for a path that exists: the metadata read from the file
\* system is passed in (readonly), the rest is computed from the path.
Node(parent, relative_path, readonly) ==
    LET absolute == path_join(parent, relative_path)
    IN  [parent |-> parent,
         relative_path |-> relative_path,
         absolute_path |-> absolute,
         extension |-> path_extension(relative_path),
         is_symlink |-> FALSE,
         is_dir |-> is_dir(absolute),
         is_file |-> ~is_dir(absolute),
         is_readonly |-> readonly,
         mime_essence |-> mime_of(path_extension(relative_path))]

DirectoryBuffer(parent, nodes, focus) ==
    [parent |-> parent, nodes |-> nodes, total |-> Len(nodes), focus |-> focus]

\* DirectoryBuffer::focused_node: self.nodes.get(self.focus), zero-based.
dir_focused_node(d) ==
    IF d.focus < Len(d.nodes) THEN Some(d.nodes[d.focus + 1]) ELSE None

(***************************************************************************)
(* The filter engine.                                                      *)
(***************************************************************************)
NodeFilters ==
    {"RelativePathIs", "RelativePathIsNot",
     "RelativePathDoesStartWith", "RelativePathDoesNotStartWith",
     "RelativePathDoesContain", "RelativePathDoesNotContain",
     "RelativePathDoesEndWith", "RelativePathDoesNotEndWith",
     "AbsolutePathIs", "AbsolutePathIsNot",
     "AbsolutePathDoesStartWith", "AbsolutePathDoesNotStartWith",
     "AbsolutePathDoesContain", "AbsolutePathDoesNotContain",
     "AbsolutePathDoesEndWith", "AbsolutePathDoesNotEndWith"}

\* NodeFilter::apply: one arm per kind, each comparing the path as it is
\* when case_sensitive and lower-cased on both sides otherwise.
NodeFilter_apply(filter, node, input, case_sensitive) ==
    LET rel == IF case_sensitive THEN node.relative_path ELSE to_lowercase(node.relative_path)
        abs == IF case_sensitive THEN node.absolute_path ELSE to_lowercase(node.absolute_path)
        inp == IF case_sensitive THEN input ELSE to_lowercase(input)
    IN  CASE filter = "RelativePathIs" -> rel = inp
          [] filter = "RelativePathIsNot" -> rel # inp
          [] filter = "RelativePathDoesStartWith" -> starts_with(rel, inp)
          [] filter = "RelativePathDoesNotStartWith" -> ~starts_with(rel, inp)
          [] filter = "RelativePathDoesContain" -> contains(rel, inp)
          [] filter = "RelativePathDoesNotContain" -> ~contains(rel, inp)
          [] filter = "RelativePathDoesEndWith" -> ends_with(rel, inp)
          [] filter = "RelativePathDoesNotEndWith" -> ~ends_with(rel, inp)
          [] filter = "AbsolutePathIs" -> abs = inp
          [] filter = "AbsolutePathIsNot" -> abs # inp
          [] filter = "AbsolutePathDoesStartWith" -> starts_with(abs, inp)
          [] filter = "AbsolutePathDoesNotStartWith" -> ~starts_with(abs, inp)
          [] filter = "AbsolutePathDoesContain" -> contains(abs, inp)
          [] filter = "AbsolutePathDoesNotContain" -> ~contains(abs, inp)
          [] filter = "AbsolutePathDoesEndWith" -> ends_with(abs, inp)
          [] filter = "AbsolutePathDoesNotEndWith" -> ~ends_with(abs, inp)

NodeFilterApplicable(filter, input, case_sensitive) ==
    [filter |-> filter, input |-> input, case_sensitive |-> case_sensitive]

NodeFilterApplicable_apply(f, node) ==
    NodeFilter_apply(f.filter, node, f.input, f.case_sensitive)

\* A Filter Set that passes what any one filter passes.
ExplorerConfig_apply_any(filters, node) ==
    \E i \in 1..Len(filters) : NodeFilterApplicable_apply(filters[i], node)

\* ExplorerConfig::apply: self.filters.iter().all(|f| f.apply(node)).
ExplorerConfig_apply(filters, node) ==
    \A i \in 1..Len(filters) : NodeFilterApplicable_apply(filters[i], node)

\* The filter both App::create and reset_node_filters install when
\* show_hidden is off; Default::default() of bool is false.
HiddenFilter == NodeFilterApplicable("RelativePathDoesNotStartWith", <<".">>, FALSE)

(***************************************************************************)
(* Messages.                                                               *)
(***************************************************************************)
Internal(m) == [kind |-> "Internal", m |-> m]

External(m) == [kind |-> "External", m |-> m]

AddDirectory(parent, dir) == [t |-> "AddDirectory", parent |-> parent, dir |-> dir]

HandleKey(key) == [t |-> "HandleKey", key |-> key]

Msg0(t) == [t |-> t]

MsgN(t, n) == [t |-> t, n |-> n]

MsgS(t, s) == [t |-> t, s |-> s]

\* Mode names are looked up, never taken apart: they stay atoms.
SwitchMode(mode) == [t |-> "SwitchMode", mode |-> mode]

MsgF(t, f) == [t |-> t, f |-> f]

Command(command, args) == [command |-> command, args |-> args]

MsgC(t, c) == [t |-> t, c |-> c]

(***************************************************************************)
(* Tasks and the scheduler.  The scheduler is std's BinaryHeap<Task>, a    *)
(* max-heap kept in a Vec; push and pop are modelled as std runs them      *)
(* (sift_up, sift_down_to_bottom), so that the task pop returns among      *)
(* several equal ones is the one the program returns.  A heap entry pairs  *)
(* the task with seq, the number of the push that put it there, and by,    *)
(* who pushed it; both are bookkeeping of the model and no operation of    *)
(* the App reads them.  Positions are zero-based as in the Vec.            *)
(***************************************************************************)
\* Task::new: created_at is Utc::now() at construction.
Task(priority, msg, key, created_at) ==
    [priority |-> priority, msg |-> msg, key |-> key, created_at |-> created_at]

\* A comparison that does not swap self and other: the larger value first.
Task_cmp_not_inverted(self, other) ==
    IF self.priority # other.priority
    THEN (IF self.priority < other.priority THEN "Less" ELSE "Greater")
    ELSE IF other.created_at # self.created_at
    THEN (IF other.created_at < self.created_at THEN "Less" ELSE "Greater")
    ELSE "Equal"

\* A comparison that ignores created_at.
Task_cmp_by_priority_only(self, other) ==
    IF other.priority # self.priority
    THEN (IF other.priority < self.priority THEN "Less" ELSE "Greater")
    ELSE "Equal"

\* impl Ord for Task: other.priority.cmp(&self.priority)
\*                      .then_with(|| other.created_at.cmp(&self.created_at)).
Task_cmp(self, other) ==
    IF other.priority # self.priority
    THEN (IF other.priority < self.priority THEN "Less" ELSE "Greater")
    ELSE IF other.created_at # self.created_at
    THEN (IF other.created_at < self.created_at THEN "Less" ELSE "Greater")
    ELSE "Equal"

\* a <= b on heap entries (PartialOrd from Task::cmp).
Le(a, b) == Task_cmp(a.task, b.task) # "Greater"

At(data, i) == data[i + 1]

Put(data, i, x) == [data EXCEPT ![i + 1] = x]

RECURSIVE sift_up(_, _, _, _)
\* BinaryHeap::sift_up(start, pos) with x the element taken out at pos:
\* the hole moves up while x is greater than the parent.
sift_up(data, x, start, pos) ==
    IF pos > start /\ ~Le(x, At(data, (pos - 1) \div 2))
    THEN sift_up(Put(data, pos, At(data, (pos - 1) \div 2)), x, start, (pos - 1) \div 2)
    ELSE Put(data, pos, x)

RECURSIVE sift_down_to_bottom(_, _, _, _)
\* BinaryHeap::sift_down_to_bottom: the hole moves down to a leaf along
\* the greater child (the right one when the two are equal), then x is
\* sifted up from there.
sift_down_to_bottom(data, x, start, pos) ==
    LET end == Len(data)
        left == 2 * pos + 1
        child == IF left + 1 < end /\ Le(At(data, left), At(data, left + 1))
                 THEN left + 1 ELSE left
    IN  IF left < end
        THEN sift_down_to_bottom(Put(data, pos, At(data, child)), x, start, child)
        ELSE sift_up(data, x, start, pos)

\* BinaryHeap::push.
heap_push(data, item) == sift_up(Append(data, item), item, 0, Len(data))

\* BinaryHeap::pop on a heap that is not empty: the root is returned, the
\* last element takes its place and is sifted down.
heap_pop(data) ==
    LET item == data[Len(data)]
        rest == SubSeq(data, 1, Len(data) - 1)
    IN  IF rest = <<>> THEN [item |-> item, data |-> rest]
        ELSE [item |-> rest[1], data |-> sift_down_to_bottom(rest, item, 0, 0)]

(***************************************************************************)
(* Keys, modes and the configuration (crate::input and crate::config).     *)
(***************************************************************************)
Keys == {"a", "s", "1", "!", "enter", "esc"}

Key_to_string(key) == key

Key_is_alphabet(key) == key \in {"a", "s"}

Key_is_number(key) == key \in {"1"}

Key_is_special_character(key) == key \in {"!"}

Key_to_char(key) == IF key \in {"a", "s", "1", "!"} THEN Some(key) ELSE None

KeyBindings(on_key, on_alphabet, on_number, on_special_character, default) ==
    [on_key |-> on_key, on_alphabet |-> on_alphabet, on_number |-> on_number,
     on_special_character |-> on_special_character, default |-> default]

Mode(name, key_bindings) == [name |-> name, key_bindings |-> key_bindings]

\* Mode::default(): no name and no binding.
DefaultMode == Mode("", KeyBindings(<<>>, None, None, None, None))

\* The mode table of the configuration the session was started with.
ConfigModes ==
    ("default" :>
        Mode("default",
             KeyBindings(("enter" :> <<Msg0("Enter")>>)
                           @@ ("s" :> <<SwitchMode("number"), Msg0("FocusFirst")>>),
                         Some(<<Msg0("FocusNext"), Msg0("ToggleSelection")>>),
                         Some(<<Msg0("BufferInputFromKey"), SwitchMode("number")>>),
                         None,
                         None)))
    @@ ("number" :>
        Mode("number",
             KeyBindings(("enter" :> <<Msg0("FocusByIndexFromInput"), SwitchMode("default")>>),
                         None,
                         Some(<<Msg0("BufferInputFromKey")>>),
                         Some(<<Msg0("ResetInputBuffer")>>),
                         Some(<<SwitchMode("default")>>))))

(***************************************************************************)
(* The App aggregate.  pid, session_path and pipe are set once by          *)
(* App::create and read by no handler; they are left out.  The mode field  *)
(* holds the name of the active Mode: the App keeps a copy of an entry of  *)
(* the mode table (or Mode::default(), whose name is ""), the table never  *)
(* changes, so the name stands for the copy; App_mode(a) gives it back.  *)
(***************************************************************************)
\* App::create, with the configuration (show_hidden) and the starting
\* directory it resolved.
App_create(show_hidden, pwd) ==
    [config |-> [general |-> [show_hidden |-> show_hidden]],
     pwd |-> pwd,
     directory_buffers |-> <<>>,
     tasks |-> <<>>,
     selection |-> <<>>,
     msg_out |-> <<>>,
     mode |-> IF "default" \in DOMAIN ConfigModes THEN "default" ELSE "",
     input_buffer |-> None,
     explorer_config |-> [filters |-> IF ~show_hidden THEN <<HiddenFilter>> ELSE <<>>],
     logs |-> <<>>]

\* App::mode: the active Mode.
App_mode(a) == IF a.mode \in DOMAIN ConfigModes THEN ConfigModes[a.mode] ELSE DefaultMode

Ok(a) == [res |-> "ok", app |-> a]

\* bail!("terminated"): the Err result; the App moved into the handler is
\* dropped with it.
Bail(a) == [res |-> "err", app |-> a]

\* A panic unwinds out of possibly_mutate: no result is returned.
Panic(a) == [res |-> "panic", app |-> a]

\* Whether the build checks integer overflow (debug_assertions /
\* overflow-checks): it panics on overflow when it does and wraps otherwise.
overflow_checks == build = "debug"

\* An effect put at the front of the queue.
push_front(a, m) == [a EXCEPT !.msg_out = <<m>> \o @]

push_back(a, m) == [a EXCEPT !.msg_out = Append(@, m)]

Refresh == [t |-> "Refresh"]

directory_buffer(a) ==
    IF a.pwd \in DOMAIN a.directory_buffers THEN Some(a.directory_buffers[a.pwd]) ELSE None

focused_node(a) ==
    IF directory_buffer(a) = None THEN None ELSE dir_focused_node(directory_buffer(a)[1])

\* The body shared by the focus handlers: dir.focus = focus, then Refresh.
set_focus(a, focus) ==
    push_back([a EXCEPT !.directory_buffers[a.pwd].focus = focus], Refresh)

\* App::enqueue: self.tasks.push(task).  seq and by (who pushed) are the
\* bookkeeping of the entry.
enqueue(a, task, seq, by) ==
    [a EXCEPT !.tasks = heap_push(@, [seq |-> seq, by |-> by, task |-> task])]

explore(a) == Ok(push_back(a, [t |-> "Explore"]))

refresh(a) == Ok(push_back(a, Refresh))

clear_screen(a) == Ok(push_back(a, [t |-> "ClearScreen"]))

\* A focus_first that asks for a redraw whether or not pwd has a Listing.
focus_first_always_refreshing(a) ==
    IF directory_buffer(a) = None THEN Ok(push_back(a, Refresh)) ELSE Ok(set_focus(a, 0))

focus_first(a) ==
    IF directory_buffer(a) = None THEN Ok(a) ELSE Ok(set_focus(a, 0))

focus_last(a) ==
    IF directory_buffer(a) = None THEN Ok(a)
    ELSE Ok(set_focus(a, Max(directory_buffer(a)[1].total, 1) - 1))

focus_previous(a) ==
    IF directory_buffer(a) = None THEN Ok(a)
    ELSE Ok(set_focus(a, Max(directory_buffer(a)[1].focus, 1) - 1))

focus_previous_by_relative_index(a, index) ==
    IF directory_buffer(a) = None THEN Ok(a)
    ELSE Ok(set_focus(a, Max(directory_buffer(a)[1].focus, index) - index))

input_usize(a) == IF a.input_buffer = None THEN None ELSE parse_usize(a.input_buffer[1])

focus_previous_by_relative_index_from_input(a) ==
    IF input_usize(a) # None THEN focus_previous_by_relative_index(a, input_usize(a)[1])
    ELSE Ok(a)

\* focus_next_by_relative_index without the min(..).
focus_next_by_relative_index_unclamped(a, index) ==
    IF directory_buffer(a) = None THEN Ok(a)
    ELSE LET dir == directory_buffer(a)[1]
             sum == dir.focus + index
         IN  IF sum > USIZE_MAX /\ overflow_checks THEN Panic(a)
             ELSE Ok(set_focus(a, sum % (USIZE_MAX + 1)))

\* dir.focus = (dir.focus + index).min(dir.total.max(1) - 1): the sum is
\* formed in usize before it is clamped.
focus_next_by_relative_index(a, index) ==
    IF directory_buffer(a) = None THEN Ok(a)
    ELSE LET dir == directory_buffer(a)[1]
             sum == dir.focus + index
         IN  IF sum > USIZE_MAX /\ overflow_checks THEN Panic(a)
             ELSE Ok(set_focus(a, Min(sum % (USIZE_MAX + 1), Max(dir.total, 1) - 1)))

\* A focus_next that wraps round to the first entry after the last one.
focus_next_cyclic(a) ==
    IF directory_buffer(a) = None THEN Ok(a)
    ELSE LET dir == directory_buffer(a)[1]
         IN  Ok(set_focus(a, (dir.focus + 1) % Max(dir.total, 1)))

\* dir.focus = (dir.focus + 1).min(dir.total.max(1) - 1).
focus_next(a) ==
    IF directory_buffer(a) = None THEN Ok(a)
    ELSE LET dir == directory_buffer(a)[1]
             sum == dir.focus + 1
         IN  IF sum > USIZE_MAX /\ overflow_checks THEN Panic(a)
             ELSE Ok(set_focus(a, Min(sum % (USIZE_MAX + 1), Max(dir.total, 1) - 1)))

focus_next_by_relative_index_from_input(a) ==
    IF input_usize(a) # None THEN focus_next_by_relative_index(a, input_usize(a)[1])
    ELSE Ok(a)

\* change_directory without the is_dir test.
change_directory_unchecked(a, dir) == Ok(push_back([a EXCEPT !.pwd = dir], Refresh))

\* A change_directory that also asks for the directory to be explored.
change_directory_exploring(a, dir) ==
    IF is_dir(dir)
    THEN Ok(push_back(push_back([a EXCEPT !.pwd = dir], Refresh), [t |-> "Explore"]))
    ELSE Ok(a)

\* A change_directory that puts the focus of the directory it arrives in on
\* its first entry.
change_directory_resetting_focus(a, dir) ==
    IF is_dir(dir)
    THEN Ok(push_back([a EXCEPT !.pwd = dir,
                                !.directory_buffers =
                                    [p \in DOMAIN @ |-> IF p = dir THEN [@[p] EXCEPT !.focus = 0]
                                                        ELSE @[p]]],
                      Refresh))
    ELSE Ok(a)

change_directory(a, dir) ==
    IF is_dir(dir) THEN Ok(push_back([a EXCEPT !.pwd = dir], Refresh)) ELSE Ok(a)

\* An enter that changes to the focused entry whether or not it is a
\* directory.
enter_any(a) ==
    IF focused_node(a) # None
    THEN Ok(push_back([a EXCEPT !.pwd = focused_node(a)[1].absolute_path], Refresh))
    ELSE Ok(a)

enter(a) ==
    IF focused_node(a) # None THEN change_directory(a, focused_node(a)[1].absolute_path)
    ELSE Ok(a)

back(a) ==
    IF path_parent(a.pwd) # None THEN change_directory(a, path_parent(a.pwd)[1]) ELSE Ok(a)

buffer_input(a, input) ==
    Ok(push_back([a EXCEPT !.input_buffer =
                      IF @ # None THEN Some(@[1] \o input) ELSE Some(input)], Refresh))

buffer_input_from_key(a, key) ==
    IF key # None /\ Key_to_char(key[1]) # None
    THEN buffer_input(a, <<Key_to_char(key[1])[1]>>)
    ELSE Ok(a)

set_input_buffer(a, string) == Ok(push_back([a EXCEPT !.input_buffer = Some(string)], Refresh))

reset_input_buffer(a) == Ok(push_back([a EXCEPT !.input_buffer = None], Refresh))

\* focus_by_index without the min(..).
focus_by_index_unclamped(a, index) ==
    IF directory_buffer(a) = None THEN Ok(a) ELSE Ok(set_focus(a, index))

\* focus_by_index clamping to total instead of total - 1.
focus_by_index_off_by_one(a, index) ==
    IF directory_buffer(a) = None THEN Ok(a)
    ELSE Ok(set_focus(a, Min(index, directory_buffer(a)[1].total)))

focus_by_index(a, index) ==
    IF directory_buffer(a) = None THEN Ok(a)
    ELSE Ok(set_focus(a, Min(index, Max(directory_buffer(a)[1].total, 1) - 1)))

\* A focus_by_index_from_input that takes an index it cannot read as 0.
focus_by_index_from_input_or_zero(a) ==
    focus_by_index(a, IF input_usize(a) # None THEN input_usize(a)[1] ELSE 0)

focus_by_index_from_input(a) ==
    IF input_usize(a) # None THEN focus_by_index(a, input_usize(a)[1]) ELSE Ok(a)

focus_by_file_name(a, name) ==
    IF directory_buffer(a) = None THEN Ok(a)
    ELSE LET nodes == directory_buffer(a)[1].nodes
             found == {i \in 1..Len(nodes) : nodes[i].relative_path = name}
         IN  IF found = {} THEN Ok(a)
             ELSE Ok(set_focus(a, (CHOOSE i \in found : \A j \in found : i <= j) - 1))

focus_path(a, path) ==
    IF path_parent(path) # None /\ path_file_name(path) # None
    THEN LET r == change_directory(a, path_parent(path)[1])
         IN  IF r.res = "ok" THEN focus_by_file_name(r.app, path_file_name(path)[1]) ELSE r
    ELSE Ok(a)

focus_path_from_input(a) ==
    IF a.input_buffer # None THEN focus_path(a, a.input_buffer[1]) ELSE Ok(a)

\* switch_mode without the lookup in config.modes.
switch_mode_unchecked(a, name) ==
    Ok(push_back([a EXCEPT !.input_buffer = None,
                           !.mode = IF name \in DOMAIN ConfigModes THEN name ELSE ""],
                 Refresh))

\* if let Some(mode) = self.config.modes.get(mode) { ... self.mode = mode.to_owned() ... }
switch_mode(a, name) ==
    IF name \in DOMAIN ConfigModes
    THEN Ok(push_back([a EXCEPT !.input_buffer = None, !.mode = name], Refresh))
    ELSE Ok(a)

call(a, command) == Ok(push_back(a, [t |-> "Call", c |-> command]))

\* An add_directory that keeps the focus of the Listing it replaces.
add_directory_keeping_focus(a, parent, dir) ==
    LET new == IF parent \in DOMAIN a.directory_buffers
               THEN [dir EXCEPT !.focus = a.directory_buffers[parent].focus]
               ELSE dir
    IN  Ok(push_back([a EXCEPT !.directory_buffers = (parent :> new) @@ @], Refresh))

add_directory(a, parent, dir) ==
    Ok(push_back([a EXCEPT !.directory_buffers = (parent :> dir) @@ @], Refresh))

\* A select that leaves an entry alone that is selected already.
select_once(a) ==
    IF focused_node(a) # None /\ focused_node(a)[1] \notin Range(a.selection)
    THEN Ok(push_back([a EXCEPT !.selection = Append(@, focused_node(a)[1])], Refresh))
    ELSE Ok(a)

select(a) ==
    IF focused_node(a) # None
    THEN Ok(push_back([a EXCEPT !.selection = Append(@, focused_node(a)[1])], Refresh))
    ELSE Ok(a)

Keep(seq, drop) == SelectSeq(seq, LAMBDA x : x # drop)

un_select(a) ==
    IF focused_node(a) # None
    THEN Ok(push_back([a EXCEPT !.selection = Keep(@, focused_node(a)[1])], Refresh))
    ELSE Ok(a)

\* A toggle that looks for the absolute path rather than the whole Node.
toggle_selection_by_path(a) ==
    IF focused_node(a) # None
    THEN IF \E i \in 1..Len(a.selection) :
               a.selection[i].absolute_path = focused_node(a)[1].absolute_path
         THEN un_select(a)
         ELSE select(a)
    ELSE Ok(a)

\* A toggle that selects whether or not the entry is selected.
toggle_selection_always_select(a) == select(a)

toggle_selection(a) ==
    IF focused_node(a) # None
    THEN IF focused_node(a)[1] \in Range(a.selection) THEN un_select(a) ELSE select(a)
    ELSE Ok(a)

clear_selection(a) == Ok(push_back([a EXCEPT !.selection = <<>>], Refresh))

\* An add that replaces the Filter Set by the one filter.
add_node_filter_replacing(a, filter) ==
    Ok(push_back([a EXCEPT !.explorer_config.filters = <<filter>>], Refresh))

add_node_filter(a, filter) ==
    Ok(push_back([a EXCEPT !.explorer_config.filters = Append(@, filter)], Refresh))

add_node_filter_from_input(a, filter) ==
    IF a.input_buffer # None
    THEN Ok(push_back([a EXCEPT !.explorer_config.filters =
                           Append(@, NodeFilterApplicable(filter.filter, a.input_buffer[1],
                                                          filter.case_sensitive))],
                      Refresh))
    ELSE Ok(a)

\* A remove that takes out the first filter equal to the given one only.
remove_node_filter_first(a, filter) ==
    LET fs == a.explorer_config.filters
        at == {i \in 1..Len(fs) : fs[i] = filter}
        first == CHOOSE i \in at : \A j \in at : i <= j
    IN  Ok(push_back([a EXCEPT !.explorer_config.filters =
                         IF at = {} THEN fs
                         ELSE SubSeq(fs, 1, first - 1) \o SubSeq(fs, first + 1, Len(fs))],
                     Refresh))

remove_node_filter(a, filter) ==
    Ok(push_back([a EXCEPT !.explorer_config.filters = Keep(@, filter)], Refresh))

toggle_node_filter(a, filter) ==
    IF filter \in Range(a.explorer_config.filters)
    THEN remove_node_filter(a, filter)
    ELSE add_node_filter(a, filter)

\* A reset that installs the hidden-file filter whatever show_hidden is.
reset_node_filters_always_hiding(a) ==
    Ok(push_back([a EXCEPT !.explorer_config.filters = <<HiddenFilter>>], Refresh))

reset_node_filters(a) ==
    Ok(push_back([a EXCEPT !.explorer_config.filters =
                      IF ~a.config.general.show_hidden THEN <<HiddenFilter>> ELSE <<>>],
                 Refresh))

\* Log::new: created_at is Utc::now().
Log(level, message, created_at) ==
    [level |-> level, message |-> message, created_at |-> created_at]

log_info(a, message, t) == Ok([a EXCEPT !.logs = Append(@, Log("Info", message, t))])

log_success(a, message, t) == Ok([a EXCEPT !.logs = Append(@, Log("Success", message, t))])

log_error(a, message, t) == Ok([a EXCEPT !.logs = Append(@, Log("Error", message, t))])

print_result_and_quit(a) == Ok(push_back(a, [t |-> "PrintResultAndQuit"]))

print_app_state_and_quit(a) == Ok(push_back(a, [t |-> "PrintAppStateAndQuit"]))

debug(a, path) == Ok(push_back(a, [t |-> "Debug", s |-> path]))

\* A resolution that tries the class fallback before the exact binding.
resolve_key_fallback_first(a, key) ==
    LET kb == App_mode(a).key_bindings
        fallback == IF Key_is_alphabet(key) THEN kb.on_alphabet
                    ELSE IF Key_is_number(key) THEN kb.on_number
                    ELSE IF Key_is_special_character(key) THEN kb.on_special_character
                    ELSE None
    IN  IF fallback # None THEN fallback[1]
        ELSE IF Key_to_string(key) \in DOMAIN kb.on_key THEN kb.on_key[Key_to_string(key)]
        ELSE IF kb.default # None THEN kb.default[1]
        ELSE <<>>

\* The messages handle_key resolves key to in the active mode.
resolve_key(a, key) ==
    LET kb == App_mode(a).key_bindings
        exact == IF Key_to_string(key) \in DOMAIN kb.on_key
                 THEN Some(kb.on_key[Key_to_string(key)])
                 ELSE IF Key_is_alphabet(key) THEN kb.on_alphabet
                 ELSE IF Key_is_number(key) THEN kb.on_number
                 ELSE IF Key_is_special_character(key) THEN kb.on_special_character
                 ELSE None
    IN  IF exact # None THEN exact[1]
        ELSE IF kb.default # None THEN kb.default[1]
        ELSE <<>>

\* A handle_key that does not tag the tasks with the key.
handle_key_untagged(a, key, ts, seq) ==
    LET msgs == resolve_key(a, key)
        F[i \in 0..Len(msgs)] ==
            IF i = 0 THEN a
            ELSE enqueue(F[i - 1], Task(0, External(msgs[i]), None, ts[i]), seq + i - 1,
                         "handle_key")
    IN  Ok(F[Len(msgs)])

\* handle_key: one Task::new(0, External(msg), Some(key)) per resolved
\* message, pushed in order; ts[i] is the clock reading of the i-th
\* Task::new and seq the number of the first push.
handle_key(a, key, ts, seq) ==
    LET msgs == resolve_key(a, key)
        F[i \in 0..Len(msgs)] ==
            IF i = 0 THEN a
            ELSE enqueue(F[i - 1], Task(0, External(msgs[i]), Some(key), ts[i]), seq + i - 1,
                         "handle_key")
    IN  Ok(F[Len(msgs)])

handle_internal(a, msg, ts, seq) ==
    CASE msg.t = "AddDirectory" -> add_directory(a, msg.parent, msg.dir)
      [] msg.t = "HandleKey" -> handle_key(a, msg.key, ts, seq)

handle_external(a, msg, key, ts) ==
    CASE msg.t = "Explore" -> explore(a)
      [] msg.t = "Refresh" -> refresh(a)
      [] msg.t = "ClearScreen" -> clear_screen(a)
      [] msg.t = "FocusFirst" -> focus_first(a)
      [] msg.t = "FocusLast" -> focus_last(a)
      [] msg.t = "FocusPrevious" -> focus_previous(a)
      [] msg.t = "FocusPreviousByRelativeIndex" -> focus_previous_by_relative_index(a, msg.n)
      [] msg.t = "FocusPreviousByRelativeIndexFromInput" ->
            focus_previous_by_relative_index_from_input(a)
      [] msg.t = "FocusNext" -> focus_next(a)
      [] msg.t = "FocusNextByRelativeIndex" -> focus_next_by_relative_index(a, msg.n)
      [] msg.t = "FocusNextByRelativeIndexFromInput" -> focus_next_by_relative_index_from_input(a)
      [] msg.t = "FocusPath" -> focus_path(a, msg.s)
      [] msg.t = "FocusPathFromInput" -> focus_path_from_input(a)
      [] msg.t = "FocusByIndex" -> focus_by_index(a, msg.n)
      [] msg.t = "FocusByIndexFromInput" -> focus_by_index_from_input(a)
      [] msg.t = "FocusByFileName" -> focus_by_file_name(a, msg.s)
      [] msg.t = "ChangeDirectory" -> change_directory(a, msg.s)
      [] msg.t = "Enter" -> enter(a)
      [] msg.t = "Back" -> back(a)
      [] msg.t = "BufferInput" -> buffer_input(a, msg.s)
      [] msg.t = "BufferInputFromKey" -> buffer_input_from_key(a, key)
      [] msg.t = "SetInputBuffer" -> set_input_buffer(a, msg.s)
      [] msg.t = "ResetInputBuffer" -> reset_input_buffer(a)
      [] msg.t = "SwitchMode" -> switch_mode(a, msg.mode)
      [] msg.t = "Call" -> call(a, msg.c)
      [] msg.t = "Select" -> select(a)
      [] msg.t = "UnSelect" -> un_select(a)
      [] msg.t = "ToggleSelection" -> toggle_selection(a)
      [] msg.t = "ClearSelection" -> clear_selection(a)
      [] msg.t = "AddNodeFilter" -> add_node_filter(a, msg.f)
      [] msg.t = "AddNodeFilterFromInput" -> add_node_filter_from_input(a, msg.f)
      [] msg.t = "RemoveNodeFilter" -> remove_node_filter(a, msg.f)
      [] msg.t = "ToggleNodeFilter" -> toggle_node_filter(a, msg.f)
      [] msg.t = "ResetNodeFilters" -> reset_node_filters(a)
      [] msg.t = "LogInfo" -> log_info(a, msg.s, ts[1])
      [] msg.t = "LogSuccess" -> log_success(a, msg.s, ts[1])
      [] msg.t = "LogError" -> log_error(a, msg.s, ts[1])
      [] msg.t = "PrintResultAndQuit" -> print_result_and_quit(a)
      [] msg.t = "PrintAppStateAndQuit" -> print_app_state_and_quit(a)
      [] msg.t = "Debug" -> debug(a, msg.s)
      [] msg.t = "Terminate" -> Bail(a)

\* The match of possibly_mutate on the popped task.
dispatch(a, task, ts, seq) ==
    IF task.msg.kind = "Internal" THEN handle_internal(a, task.msg.m, ts, seq)
    ELSE handle_external(a, task.msg.m, task.key, ts)

\* A result without the focused entry as fallback.
result_selection_only(a) == a.selection

result(a) ==
    IF a.selection = <<>>
    THEN (IF focused_node(a) # None THEN <<focused_node(a)[1]>> ELSE <<>>)
    ELSE a.selection

\* A result text separated by commas.
result_str_comma(a) ==
    join([i \in 1..Len(result(a)) |-> result(a)[i].absolute_path], <<",">>)

result_str(a) ==
    join([i \in 1..Len(result(a)) |-> result(a)[i].absolute_path], <<"\n">>)

(***************************************************************************)
(* The session: the driving loop that calls possibly_mutate, the producers *)
(* that create tasks and enqueue them, the executor that drains msg_out,   *)
(* and the clock Utc::now() reads.                                         *)
(*                                                                         *)
(*   app         the App                                                   *)
(*   outcome     what the last possibly_mutate returned; the loop stops at *)
(*               the first result that is not Ok                           *)
(*   now         the reading of the wall clock                             *)
(*   made        per producer, the task it has built with Task::new and    *)
(*               not yet passed to enqueue                                 *)
(*   pushes      how many tasks have been pushed on the scheduler          *)
(*   build       whether the build checks integer overflow                 *)
(*   last        history: what the latest call on the App did, as a        *)
(*               sequence of events (push, pop, idle, out)                 *)
(*   dispatched  history: for every task popped so far, in order, the heap *)
(*               entry e, the App the call started from (before), the App  *)
(*               and the result the handler returned (after, res)          *)
(***************************************************************************)
Producers == {"p1", "p2"}

Time == {0, 1}

\* The session right after App::create, for a configuration and a build.
Start(show_hidden, checks) ==
    /\ app = App_create(show_hidden, TMP)
    /\ outcome = "ok"
    /\ now = 0
    /\ made = [p \in Producers |-> None]
    /\ pushes = 0
    /\ build = checks
    /\ last = <<>>
    /\ dispatched = <<>>

Init == \E show_hidden \in BOOLEAN, checks \in {"debug", "release"} : Start(show_hidden, checks)

\* How many tasks the producers have created so far.
Created == Cardinality({d \in Range(dispatched) : d.e.by = "producer"})
             + Cardinality({e \in Range(app.tasks) : e.by = "producer"})
             + Cardinality({p \in Producers : made[p] # None})

\* The wall clock moves: forward as time passes, or to any reading when it
\* is set.
ClockChange(t) ==
    /\ t # now
    /\ now' = t
    /\ UNCHANGED <<app, outcome, made, pushes, build, last, dispatched>>

\* A producer builds a task: Task::new reads the clock.
TaskNew(p, priority, msg, key, max) ==
    /\ outcome = "ok"
    /\ Created < max
    /\ made[p] = None
    /\ made' = [made EXCEPT ![p] = Some(Task(priority, msg, key, now))]
    /\ UNCHANGED <<app, outcome, now, pushes, build, last, dispatched>>

\* The producer passes the task it built to App::enqueue.
Enqueue(p) ==
    /\ outcome = "ok"
    /\ made[p] # None
    /\ app' = enqueue(app, made[p][1], pushes + 1, "producer")
    /\ pushes' = pushes + 1
    /\ last' = <<[op |-> "push", seq |-> pushes + 1]>>
    /\ made' = [made EXCEPT ![p] = None]
    /\ UNCHANGED <<outcome, now, build, dispatched>>

\* app.enqueue(Task::new(priority, msg, key)) in one go.
Send(priority, msg, key, max) ==
    /\ outcome = "ok"
    /\ Created < max
    /\ app' = enqueue(app, Task(priority, msg, key, now), pushes + 1, "producer")
    /\ pushes' = pushes + 1
    /\ last' = <<[op |-> "push", seq |-> pushes + 1]>>
    /\ UNCHANGED <<outcome, now, made, build, dispatched>>

\* The number of times the handler of task reads the clock.
ClockReadsOf(a, task) ==
    IF task.msg.kind = "Internal"
    THEN (IF task.msg.m.t = "HandleKey" THEN Len(resolve_key(a, task.msg.m.key)) ELSE 0)
    ELSE (IF task.msg.m.t \in {"LogInfo", "LogSuccess", "LogError"} THEN 1 ELSE 0)

\* The readings k successive Utc::now() calls can return from reading t0 on.
ClockReadings(t0, k) ==
    {ts \in [1..k -> {t \in Time : t >= t0}] : \A i \in 1..(k - 1) : ts[i] <= ts[i + 1]}

\* A step that dispatches the head of the scheduler and leaves it there.
PossiblyMutate_without_pop ==
    /\ outcome = "ok"
    /\ app.tasks # <<>>
    /\ LET e == heap_pop(app.tasks).item
       IN  \E ts \in ClockReadings(now, ClockReadsOf(app, e.task)) :
             LET r == dispatch(app, e.task, ts, pushes + 1)
                 n == Len(r.app.tasks) - Len(app.tasks)
             IN  /\ app' = r.app
                 /\ outcome' = r.res
                 /\ now' = IF ts = <<>> THEN now ELSE ts[Len(ts)]
                 /\ pushes' = pushes + n
                 /\ last' = <<[op |-> "pop", seq |-> e.seq]>>
                              \o [i \in 1..n |-> [op |-> "push", seq |-> pushes + i]]
                 /\ dispatched' = Append(dispatched,
                                         [e |-> e, before |-> app, after |-> r.app,
                                          res |-> r.res])
                 /\ UNCHANGED <<made, build>>

\* App::possibly_mutate: pop one task and dispatch it; Ok(self) when the
\* scheduler is empty.
PossiblyMutate ==
    /\ outcome = "ok"
    /\ IF app.tasks = <<>>
       THEN /\ last' = <<[op |-> "idle"]>>
            /\ UNCHANGED <<app, outcome, now, made, pushes, build, dispatched>>
       ELSE LET e == heap_pop(app.tasks).item
                a1 == [app EXCEPT !.tasks = heap_pop(app.tasks).data]
            IN  \E ts \in ClockReadings(now, ClockReadsOf(a1, e.task)) :
                  LET r == dispatch(a1, e.task, ts, pushes + 1)
                      n == Len(r.app.tasks) - Len(a1.tasks)
                  IN  /\ app' = r.app
                      /\ outcome' = r.res
                      /\ now' = IF ts = <<>> THEN now ELSE ts[Len(ts)]
                      /\ pushes' = pushes + n
                      /\ last' = <<[op |-> "pop", seq |-> e.seq]>>
                                   \o [i \in 1..n |-> [op |-> "push", seq |-> pushes + i]]
                      /\ dispatched' = Append(dispatched,
                                              [e |-> e, before |-> app, after |-> r.app,
                                               res |-> r.res])
                      /\ UNCHANGED <<made, build>>

\* App::pop_msg_out, called by the executor.
PopMsgOut ==
    /\ app.msg_out # <<>>
    /\ app' = [app EXCEPT !.msg_out = Tail(@)]
    /\ last' = <<[op |-> "out", m |-> Head(app.msg_out)]>>
    /\ UNCHANGED <<outcome, now, made, pushes, build, dispatched>>

(***************************************************************************)
(* The inputs the producers draw from.                                     *)
(***************************************************************************)
NodeA == Node(TMP, A_TXT, FALSE)

NodeB == Node(TMP, B_TXT, FALSE)

NodeC == Node(TMP, C_TXT, FALSE)

NodeD == Node(TMP, D_DIR, FALSE)

NodeGit == Node(TMP, DOT_GIT, FALSE)

NodeReadme == Node(TMP, README, TRUE)

TMP_A_TXT == path_join(TMP, A_TXT)

CaseFilter == NodeFilterApplicable("RelativePathDoesEndWith", <<"M", "D">>, TRUE)

\* Listings are taken as DirectoryBuffer::new builds them: any focus is
\* accepted. A message comes with the key its task is tagged with: producers
\* tag no key, except that BufferInputFromKey is tried with and without one.
Inputs ==
    LET Listings ==
            {DirectoryBuffer(TMP, nodes, focus) :
                nodes \in {<<>>, <<NodeD, NodeA>>}, focus \in {0, 1, 2, USIZE_MAX}}
        ExternalMsgs ==
            {Msg0(t) : t \in {"Explore", "Refresh", "ClearScreen", "FocusNext",
                              "FocusNextByRelativeIndexFromInput", "FocusPrevious",
                              "FocusPreviousByRelativeIndexFromInput", "FocusFirst", "FocusLast",
                              "FocusPathFromInput", "FocusByIndexFromInput", "Enter", "Back",
                              "BufferInputFromKey", "ResetInputBuffer", "Select", "UnSelect",
                              "ToggleSelection", "ClearSelection", "ResetNodeFilters",
                              "PrintResultAndQuit", "PrintAppStateAndQuit", "Terminate"}}
            \cup {MsgN(t, n) : t \in {"FocusNextByRelativeIndex", "FocusPreviousByRelativeIndex",
                                      "FocusByIndex"},
                               n \in {1, USIZE_MAX}}
            \cup {MsgS("FocusPath", s) : s \in {TMP_A_TXT, A_TXT, ROOT}}
            \cup {MsgS("FocusByFileName", s) : s \in {A_TXT, NOPE}}
            \cup {MsgS("ChangeDirectory", s) : s \in {ROOT, NOPE}}
            \cup {MsgS("BufferInput", s) : s \in {<<"1">>, <<"x">>}}
            \cup {MsgS("SetInputBuffer", s) : s \in {<<"9">>, <<>>, TMP_A_TXT}}
            \cup {SwitchMode(mode) : mode \in {"number", "absent"}}
            \cup {MsgC("Call", Command(<<"l", "s">>, <<>>))}
            \cup {MsgF(t, f) : t \in {"AddNodeFilter", "RemoveNodeFilter", "ToggleNodeFilter"},
                               f \in {HiddenFilter, CaseFilter}}
            \cup {MsgF("AddNodeFilterFromInput",
                       [filter |-> "RelativePathDoesContain", case_sensitive |-> FALSE])}
            \cup {MsgS(t, <<"h", "i">>) : t \in {"LogInfo", "LogSuccess", "LogError", "Debug"}}
        InternalMsgs ==
            {AddDirectory(TMP, dir) : dir \in Listings} \cup {HandleKey(key) : key \in Keys}
    IN  {<<External(m), None>> : m \in ExternalMsgs}
        \cup {<<External(Msg0("BufferInputFromKey")), Some(key)>> : key \in {"a", "enter"}}
        \cup {<<Internal(m), None>> : m \in InternalMsgs}

Next ==
    \/ \E in \in Inputs : Send(0, in[1], in[2], MaxTasks)
    \/ PossiblyMutate

Spec == Init /\ [][Next]_vars

(***************************************************************************)
(* The scheduler alone: tasks of any priority are enqueued as time passes  *)
(* while the loop drains.                                                  *)
(***************************************************************************)
Priorities == {1, 2, 3}

SchedInputs == {External(Msg0("Refresh"))}

\* Time passes.
ClockAdvance(t) == t > now /\ ClockChange(t)

SpecSched ==
    /\ Start(FALSE, "release")
    /\ [][
           \/ \E priority \in Priorities, msg \in SchedInputs :
                 Send(priority, msg, None, MaxSchedTasks)
           \/ \E t \in Time : ClockAdvance(t)
           \/ PossiblyMutate
       ]_vars

(***************************************************************************)
(* The scheduler under concurrent producers: each producer builds a task   *)
(* with Task::new and enqueues it later, while time passes and the loop    *)
(* drains.                                                                 *)
(***************************************************************************)
SpecProducers ==
    /\ Start(FALSE, "release")
    /\ [][
           \/ \E p \in Producers, priority \in Priorities, msg \in SchedInputs :
                 TaskNew(p, priority, msg, None, MaxProducerTasks)
           \/ \E p \in Producers : Enqueue(p)
           \/ \E t \in Time : ClockAdvance(t)
           \/ PossiblyMutate
       ]_vars

\* The latest dispatch: the task popped and the App before and after.
LastD == dispatched[Len(dispatched)]

\* C1: whenever a task is dispatched, no task still pending in the
\* scheduler has a numerically smaller priority value than it; and four
\* tasks enqueued with priorities 2, 1, 1, 3 and then drained are
\* dispatched in the priority order 1, 1, 2, 3.
C1_DispatchesLeastPriority ==
    /\ dispatched # <<>> =>
         \A o \in Range(LastD.before.tasks) : o.task.priority >= LastD.e.task.priority
    /\ LET first4 == SelectSeq(dispatched, LAMBDA d : d.e.seq <= 4)
           prio(n) == (CHOOSE d \in Range(first4) : d.e.seq = n).e.task.priority
       IN  (/\ Len(first4) = 4
            /\ Len(dispatched[1].before.tasks) >= 4
            /\ <<prio(1), prio(2), prio(3), prio(4)>> = <<2, 1, 1, 3>>)
           => [i \in 1..4 |-> first4[i].e.task.priority] = <<1, 1, 2, 3>>

C1_Witness ==
    /\ Len(dispatched) = 4
    /\ Len(dispatched[1].before.tasks) = 4
    /\ \A d \in Range(dispatched) : d.e.task.priority = <<2, 1, 1, 3>>[d.e.seq]

\* C2: any two tasks of equal priority are dispatched in the order in
\* which they were enqueued: a dispatched task leaves behind no task of its
\* priority that was enqueued before it.
C2_EqualPriorityFifo ==
    dispatched # <<>> =>
      \A o \in Range(LastD.before.tasks) :
         o.task.priority = LastD.e.task.priority => o.seq >= LastD.e.seq

(***************************************************************************)
(* Claims on the whole message set (Spec).                                 *)
(***************************************************************************)
\* C3: a step returns a failure result if and only if the dispatched task
\* is the external command Terminate; every other message yields a
\* successful result.
C3_FailsOnlyOnTerminate ==
    dispatched # <<>> =>
      ((LastD.res # "ok") <=> (LastD.e.task.msg = External(Msg0("Terminate"))))

InRange(d) ==
    /\ d.total > 0 => (0 <= d.focus /\ d.focus <= d.total - 1)
    /\ d.total = 0 => (d.focus = 0 /\ dir_focused_node(d) = None)

\* C4: in every reachable state every Listing of the path-to-Listing map
\* has its focus in range: within [0, count-1] when count > 0, and 0 with
\* no entry focused when count is 0.
C4_EveryListingInRange ==
    \A p \in DOMAIN app.directory_buffers : InRange(app.directory_buffers[p])

(***************************************************************************)
(* The focus commands on a working directory whose Listing arrives with    *)
(* its focus in range.  One message is submitted at a time: the producer   *)
(* waits for the scheduler to drain.                                       *)
(***************************************************************************)
Submit(msg, key, max) == app.tasks = <<>> /\ Send(0, msg, key, max)

\* The Listings a reader that validates the focus passes to AddDirectory.
ListingsInRange ==
    {d \in {DirectoryBuffer(TMP, nodes, focus) :
                nodes \in {<<>>, <<NodeA, NodeB, NodeC>>}, focus \in 0..2} :
        InRange(d)}

FocusInputs ==
    {Internal(AddDirectory(TMP, dir)) : dir \in ListingsInRange}
    \cup {External(Msg0(t)) : t \in {"FocusFirst", "FocusLast", "FocusNext", "FocusPrevious"}}
    \cup {External(MsgN(t, n)) :
            t \in {"FocusNextByRelativeIndex", "FocusPreviousByRelativeIndex", "FocusByIndex"},
            n \in {1, USIZE_MAX}}
    \cup {External(MsgS("FocusByFileName", s)) : s \in {A_TXT, C_TXT, NOPE}}

SpecFocus ==
    /\ \E checks \in {"debug", "release"} : Start(FALSE, checks)
    /\ [][(\E msg \in FocusInputs : Submit(msg, None, MaxFocusTasks)) \/ PossiblyMutate]_vars

\* C5: the working directory's Listing, installed with its focus in range,
\* keeps it in range under every sequence of focus commands with any
\* arguments: with N > 0 entries the focus is in [0, N-1] and an entry is
\* focused; with N = 0 the focus is 0 and no entry is focused.
C5_FocusCommandsKeepRange ==
    directory_buffer(app) # None =>
      LET d == directory_buffer(app)[1]
      IN  /\ d.total > 0 => (d.focus \in 0..(d.total - 1) /\ focused_node(app) # None)
          /\ d.total = 0 => (d.focus = 0 /\ focused_node(app) = None)

\* A jump past the last of three entries was clamped to the last one.
C5_Witness ==
    /\ dispatched # <<>>
    /\ LastD.e.task.msg = External(MsgN("FocusByIndex", USIZE_MAX))
    /\ LastD.res = "ok"
    /\ directory_buffer(LastD.before) # None
    /\ directory_buffer(LastD.before)[1].total = 3
    /\ directory_buffer(LastD.before)[1].focus = 0
    /\ directory_buffer(app)[1].focus = 2

(***************************************************************************)
(* Scenario C: /tmp lists a.txt, b.txt and c.txt with the focus on a.txt;  *)
(* the user moves the focus and selects.                                   *)
(***************************************************************************)
TMP_B_TXT == path_join(TMP, B_TXT)

TMP_C_TXT == path_join(TMP, C_TXT)

ListingABC == DirectoryBuffer(TMP, <<NodeA, NodeB, NodeC>>, 0)

ScenarioInputs ==
    {Internal(AddDirectory(TMP, ListingABC))}
    \cup {External(Msg0(t)) : t \in {"FocusNext", "FocusFirst", "Select"}}

SpecScenarioC ==
    /\ Start(FALSE, "release")
    /\ [][(\E msg \in ScenarioInputs : Submit(msg, None, MaxScenarioTasks)) \/ PossiblyMutate]_vars

\* C6 as stated: with an empty selection and the focus on /tmp/a.txt the
\* result text is "/tmp/a.txt"; once /tmp/b.txt and /tmp/c.txt have been
\* selected it is "/tmp/a.txt\n/tmp/b.txt\n/tmp/c.txt", wherever the focus
\* is.
C6_ScenarioC ==
    /\ (app.selection = <<>> /\ focused_node(app) = Some(NodeA)) =>
          result_str(app) = TMP_A_TXT
    /\ app.selection = <<NodeB, NodeC>> =>
          result_str(app) = TMP_A_TXT \o <<"\n">> \o TMP_B_TXT \o <<"\n">> \o TMP_C_TXT

\* C6 amended: with an empty selection and the focus on /tmp/a.txt the
\* result text is "/tmp/a.txt"; once /tmp/b.txt and /tmp/c.txt have been
\* selected it is "/tmp/b.txt\n/tmp/c.txt", wherever the focus is: the entry
\* that was only focused is not part of the result.
C6_ScenarioC_SelectionOnly ==
    /\ (app.selection = <<>> /\ focused_node(app) = Some(NodeA)) =>
          result_str(app) = TMP_A_TXT
    /\ app.selection = <<NodeB, NodeC>> =>
          result_str(app) = TMP_B_TXT \o <<"\n">> \o TMP_C_TXT

\* b.txt and c.txt were selected from an empty selection with a.txt
\* focused, and the focus has moved back to a.txt since.
C6_Witness ==
    /\ Len(dispatched) = 6
    /\ dispatched[2].before.selection = <<>>
    /\ focused_node(dispatched[2].before) = Some(NodeA)
    /\ app.selection = <<NodeB, NodeC>>
    /\ LastD.e.task.msg = External(Msg0("FocusFirst"))
    /\ focused_node(app) = Some(NodeA)

(***************************************************************************)
(* The selection commands on the three-entry Listing.                      *)
(***************************************************************************)
SelInputs ==
    {Internal(AddDirectory(TMP, ListingABC))}
    \cup {External(Msg0(t)) : t \in {"FocusNext", "Select", "UnSelect", "ToggleSelection",
                                     "ClearSelection"}}

SpecSel ==
    /\ Start(FALSE, "release")
    /\ [][(\E msg \in SelInputs : Submit(msg, None, MaxSelTasks)) \/ PossiblyMutate]_vars

RECURSIVE Offset(_, _)
\* Where the i-th of strs starts in their newline-separated text, less one.
Offset(strs, i) == IF i = 1 THEN 0 ELSE Offset(strs, i - 1) + Len(strs[i - 1]) + 1

\* text is strs with one newline between each two neighbours.
NewlineSeparated(text, strs) ==
    LET n == Len(strs)
    IN  /\ Len(text) = (IF n = 0 THEN 0 ELSE Offset(strs, n) + Len(strs[n]))
        /\ \A i \in 1..n :
              /\ \A k \in 1..Len(strs[i]) : text[Offset(strs, i) + k] = strs[i][k]
              /\ i < n => text[Offset(strs, i) + Len(strs[i]) + 1] = "\n"

\* C7: result() is the selection list, in order, when the selection is
\* non-empty; otherwise the one-element list of the focused entry when one
\* exists; otherwise empty.  The result text is the absolute paths of
\* result() separated by newlines.
C7_ResultIsSelectionElseFocus ==
    /\ app.selection # <<>> => result(app) = app.selection
    /\ (app.selection = <<>> /\ focused_node(app) # None) =>
          result(app) = <<focused_node(app)[1]>>
    /\ (app.selection = <<>> /\ focused_node(app) = None) => result(app) = <<>>
    /\ NewlineSeparated(result_str(app),
                        [i \in 1..Len(result(app)) |-> result(app)[i].absolute_path])

\* Two different entries are selected while a third one is focused.
C7_Witness ==
    /\ Len(app.selection) = 2
    /\ app.selection[1] # app.selection[2]
    /\ focused_node(app) # None
    /\ focused_node(app)[1] \notin Range(app.selection)
    /\ Len(result(app)) = 2

\* The dispatch before the latest one.
PrevD == dispatched[Len(dispatched) - 1]

ToggleSelection == External(Msg0("ToggleSelection"))

\* The latest two dispatches were both toggle-selection, on one focused
\* entry.
ToggledTwice ==
    /\ Len(dispatched) >= 2
    /\ PrevD.e.task.msg = ToggleSelection
    /\ LastD.e.task.msg = ToggleSelection
    /\ focused_node(PrevD.before) # None
    /\ focused_node(LastD.before) = focused_node(PrevD.before)
    /\ LastD.before.directory_buffers = PrevD.before.directory_buffers

\* C9: two toggle-selections in succession, focus and listing unchanged,
\* leave the focused entry a member of the selection iff it was one before
\* them, whatever the selection held, duplicates of the entry included.
C9_ToggleTwiceRestoresMembership ==
    ToggledTwice =>
      LET n == focused_node(PrevD.before)[1]
      IN  (n \in Range(PrevD.before.selection)) <=> (n \in Range(LastD.after.selection))

\* The selection held the focused entry twice before the two toggles.
C9_Witness ==
    /\ ToggledTwice
    /\ LET n == focused_node(PrevD.before)[1]
       IN  /\ Cardinality({i \in 1..Len(PrevD.before.selection) :
                             PrevD.before.selection[i] = n}) = 2
           /\ n \in Range(app.selection)

(***************************************************************************)
(* The filter commands, from either setting of show_hidden.                *)
(***************************************************************************)
NotMdFilter == NodeFilterApplicable("RelativePathDoesNotEndWith", <<"m", "d">>, FALSE)

FilterInputs ==
    {External(MsgF(t, f)) : t \in {"AddNodeFilter", "RemoveNodeFilter", "ToggleNodeFilter"},
                            f \in {HiddenFilter, CaseFilter, NotMdFilter}}
    \cup {External(Msg0("ResetNodeFilters"))}

SpecFilter ==
    /\ \E show_hidden \in BOOLEAN : Start(show_hidden, "release")
    /\ [][(\E msg \in FilterInputs : Submit(msg, None, MaxFilterTasks)) \/ PossiblyMutate]_vars

\* The filters and the entries the monotonicity is checked over.
FilterUniverse ==
    {NodeFilterApplicable(filter, input, case_sensitive) :
        filter \in NodeFilters,
        input \in {<<".">>, <<"m", "d">>, <<"M", "D">>},
        case_sensitive \in BOOLEAN}

EntryUniverse == {NodeA, NodeD, NodeGit, NodeReadme}

\* C8: for the Filter Set F of every reachable state, every filter f and
\* every entry e, e visible under F with f appended implies e visible under
\* F; and an add-node-filter dispatch makes no entry visible that was
\* hidden before it.
C8_FilterMonotonicity ==
    /\ \A f \in FilterUniverse, e \in EntryUniverse :
          ExplorerConfig_apply(Append(app.explorer_config.filters, f), e)
            => ExplorerConfig_apply(app.explorer_config.filters, e)
    /\ (dispatched # <<>> /\ LastD.e.task.msg.m.t = "AddNodeFilter") =>
          \A e \in EntryUniverse :
             ExplorerConfig_apply(LastD.after.explorer_config.filters, e)
               => ExplorerConfig_apply(LastD.before.explorer_config.filters, e)

\* add-node-filter on a non-empty Filter Set hid an entry that was visible
\* and kept another one visible.
C8_Witness ==
    /\ dispatched # <<>>
    /\ LastD.e.task.msg.m.t = "AddNodeFilter"
    /\ LastD.before.explorer_config.filters # <<>>
    /\ \E e \in EntryUniverse :
          /\ ExplorerConfig_apply(LastD.before.explorer_config.filters, e)
          /\ ~ExplorerConfig_apply(app.explorer_config.filters, e)
    /\ \E e \in EntryUniverse : ExplorerConfig_apply(app.explorer_config.filters, e)

(***************************************************************************)
(* The mode switches, with an input buffer to lose.                        *)
(***************************************************************************)
ModeInputs ==
    {External(SwitchMode(mode)) : mode \in {"default", "number", "absent"}}
    \cup {External(MsgS("SetInputBuffer", <<"9">>)), External(MsgS("BufferInput", <<"1">>)),
          External(Msg0("ResetInputBuffer"))}

SpecMode ==
    /\ Start(FALSE, "release")
    /\ [][(\E msg \in ModeInputs : Submit(msg, None, MaxModeTasks)) \/ PossiblyMutate]_vars

\* C10: a switch-mode to a name that is not in the mode table leaves the
\* active mode and the input buffer as they were, appends no effect, and
\* the step succeeds.
C10_SwitchToAbsentModeIsNoOp ==
    (dispatched # <<>> /\ LastD.e.task.msg = External(SwitchMode("absent"))) =>
      /\ LastD.res = "ok"
      /\ LastD.after.mode = LastD.before.mode
      /\ App_mode(LastD.after) = App_mode(LastD.before)
      /\ LastD.after.input_buffer = LastD.before.input_buffer
      /\ LastD.after.msg_out = LastD.before.msg_out

\* The switch to the absent mode came in mode "number" with input buffered.
C10_Witness ==
    /\ dispatched # <<>>
    /\ LastD.e.task.msg = External(SwitchMode("absent"))
    /\ LastD.before.mode = "number"
    /\ LastD.before.input_buffer # None
    /\ app.mode = "number"
    /\ app.input_buffer = LastD.before.input_buffer

(***************************************************************************)
(* The navigation commands: /tmp lists the directory d and a.txt; / and    *)
(* /tmp/d exist as directories and /no does not.                           *)
(***************************************************************************)
NavInputs ==
    {Internal(AddDirectory(TMP, DirectoryBuffer(TMP, <<NodeD, NodeA>>, focus))) :
        focus \in {0, 1}}
    \cup {External(MsgS("ChangeDirectory", s)) : s \in {ROOT, TMP_D, NOPE}}
    \cup {External(MsgS("FocusPath", s)) :
            s \in {TMP_A_TXT, A_TXT, ROOT, path_join(NOPE, A_TXT)}}
    \cup {External(Msg0(t)) : t \in {"Enter", "Back"}}

SpecNav ==
    /\ Start(FALSE, "release")
    /\ [][(\E msg \in NavInputs : Submit(msg, None, MaxNavTasks)) \/ PossiblyMutate]_vars

\* What the dispatch d left of the App it started from, the popped task
\* aside: TRUE when only the scheduler differs, by that one pop.
OnlyPopped(d) == d.after = [d.before EXCEPT !.tasks = heap_pop(d.before.tasks).data]

\* C11: change-directory(d) with d not an existing directory leaves pwd and
\* the effect queue unchanged (no redraw is appended), and the step
\* succeeds.
C11_ChangeDirectoryToNonDirectory ==
    (/\ dispatched # <<>>
     /\ LastD.e.task.msg.kind = "External"
     /\ LastD.e.task.msg.m.t = "ChangeDirectory"
     /\ ~is_dir(LastD.e.task.msg.m.s)) =>
      /\ LastD.res = "ok"
      /\ LastD.after.pwd = LastD.before.pwd
      /\ LastD.after.msg_out = LastD.before.msg_out

\* change-directory("/no") was dispatched with an effect already queued.
C11_Witness ==
    /\ dispatched # <<>>
    /\ LastD.e.task.msg = External(MsgS("ChangeDirectory", NOPE))
    /\ LastD.before.msg_out # <<>>
    /\ LastD.after.pwd = TMP

\* C12: focus-path(p) with p without a parent component, or with a parent
\* that is not an existing directory, is a no-op: pwd, the focus of every
\* listing and the effect queue are unchanged, also when the listing of the
\* working directory has an entry named like p's file name.
C12_FocusPathWithoutDirectoryIsNoOp ==
    (/\ dispatched # <<>>
     /\ LastD.e.task.msg.kind = "External"
     /\ LastD.e.task.msg.m.t = "FocusPath"
     /\ \/ path_parent(LastD.e.task.msg.m.s) = None
        \/ ~is_dir(path_parent(LastD.e.task.msg.m.s)[1])) =>
      /\ LastD.after.pwd = LastD.before.pwd
      /\ LastD.after.directory_buffers = LastD.before.directory_buffers
      /\ LastD.after.msg_out = LastD.before.msg_out

(***************************************************************************)
(* Claims on single focus commands (SpecFocus).                            *)
(***************************************************************************)
\* The latest dispatch was the external message m, on a working directory
\* that has a Listing.
FocusDispatch(m) ==
    /\ dispatched # <<>>
    /\ LastD.e.task.msg = External(m)
    /\ directory_buffer(LastD.before) # None

\* The Listing of the working directory before and after the latest
\* dispatch.
DirBefore == directory_buffer(LastD.before)[1]

DirAfter == directory_buffer(LastD.after)[1]

\* C13: focus-by-index(n) on a Listing of N > 0 entries sets the focus to
\* N-1 when n >= N and to n when n < N; on an empty Listing it sets the
\* focus to 0.
C13_FocusByIndexClamps ==
    \A n \in 0..USIZE_MAX :
       FocusDispatch(MsgN("FocusByIndex", n)) =>
          /\ LastD.res = "ok"
          /\ DirAfter.total = DirBefore.total
          /\ (DirBefore.total > 0 /\ n >= DirBefore.total) => DirAfter.focus = DirBefore.total - 1
          /\ (DirBefore.total > 0 /\ n < DirBefore.total) => DirAfter.focus = n
          /\ DirBefore.total = 0 => DirAfter.focus = 0

\* focus-by-index(1) moved the focus of three entries from 2 to 1.
C13_Witness ==
    /\ FocusDispatch(MsgN("FocusByIndex", 1))
    /\ DirBefore.total = 3
    /\ DirBefore.focus = 2
    /\ DirAfter.focus = 1

(***************************************************************************)
(* Scenario A: /tmp lists one, two or three entries, focus in range, and   *)
(* the user steps through them.                                            *)
(***************************************************************************)
StepInputs ==
    {Internal(AddDirectory(TMP, DirectoryBuffer(TMP, SubSeq(<<NodeA, NodeB, NodeC>>, 1, n),
                                                focus))) :
        n \in 1..3, focus \in {0, 2}}
    \cup {External(Msg0(t)) : t \in {"FocusNext", "FocusLast", "FocusPrevious"}}

SpecSteps ==
    /\ Start(FALSE, "release")
    /\ [][(\E msg \in StepInputs : Submit(msg, None, MaxStepTasks)) \/ PossiblyMutate]_vars

\* The messages of the latest four dispatches.
LastFour == [i \in 1..4 |-> dispatched[Len(dispatched) - 4 + i].e.task.msg]

\* The focus of /tmp after each of the latest three dispatches.
LastThreeFocus ==
    [i \in 1..3 |-> dispatched[Len(dispatched) - 3 + i].after.directory_buffers[TMP].focus]

\* C14: focus-next with the focus on the last of N > 0 entries leaves it
\* there, and focus-previous with the focus on the first leaves it there;
\* so from the Listing [a, b, c] with focus 0, focus-next, focus-last and
\* focus-previous give the focus 1, 2 and 1.
C14_FocusStopsAtTheEnds ==
    /\ (/\ FocusDispatch(Msg0("FocusNext"))
        /\ DirBefore.total > 0
        /\ DirBefore.focus = DirBefore.total - 1) =>
          (LastD.res = "ok" /\ DirAfter.focus = DirBefore.total - 1)
    /\ (/\ FocusDispatch(Msg0("FocusPrevious"))
        /\ DirBefore.total > 0
        /\ DirBefore.focus = 0) =>
          (LastD.res = "ok" /\ DirAfter.focus = 0)
    /\ (/\ Len(dispatched) >= 4
        /\ LastFour = <<Internal(AddDirectory(TMP, ListingABC)), External(Msg0("FocusNext")),
                        External(Msg0("FocusLast")), External(Msg0("FocusPrevious"))>>) =>
          LastThreeFocus = <<1, 2, 1>>

\* Scenario A has run from the Listing [a, b, c] with focus 0.
C14_Witness ==
    /\ Len(dispatched) = 4
    /\ LastFour = <<Internal(AddDirectory(TMP, ListingABC)), External(Msg0("FocusNext")),
                    External(Msg0("FocusLast")), External(Msg0("FocusPrevious"))>>
    /\ LastThreeFocus = <<1, 2, 1>>

(***************************************************************************)
(* The keyboard: keys are pressed, and the loop dispatches the messages    *)
(* they resolve to, which switch between the modes.                        *)
(***************************************************************************)
KeyInputs == {Internal(HandleKey(key)) : key \in Keys}

SpecKeys ==
    /\ Start(FALSE, "release")
    /\ [][(\E msg \in KeyInputs : Send(0, msg, None, MaxKeyTasks)) \/ PossiblyMutate]_vars

\* The tasks dispatch d left on the scheduler that were not there before,
\* in the order they were pushed.
Pushed(d) ==
    LET new == {e \in Range(d.after.tasks) : e \notin Range(d.before.tasks)}
    IN  [i \in 1..Cardinality(new) |->
            (CHOOSE e \in new : Cardinality({f \in new : f.seq < e.seq}) = i - 1).task]

PushedMsgs(d) == [i \in 1..Len(Pushed(d)) |-> Pushed(d)[i].msg.m]

\* The class of a key: the first test it passes.
KeyClass(key) ==
    IF Key_is_alphabet(key) THEN "alphabet"
    ELSE IF Key_is_number(key) THEN "number"
    ELSE IF Key_is_special_character(key) THEN "special"
    ELSE "none"

\* The fallback binding of a class in the bindings kb.
ClassFallback(kb, class) ==
    CASE class = "alphabet" -> kb.on_alphabet
      [] class = "number" -> kb.on_number
      [] class = "special" -> kb.on_special_character
      [] class = "none" -> None

\* C15: for every key and active mode, the key resolves to the messages of
\* its exact binding if its string form is bound; else to the fallback of
\* its class (the first of alphabetic, numeric, special character it
\* belongs to) if that is configured; else to the default binding if
\* configured; else to nothing. The fallback of another class is never used.
C15_KeyResolutionPrecedence ==
    \A key \in Keys :
      (dispatched # <<>> /\ LastD.e.task.msg = Internal(HandleKey(key))) =>
        LET kb == App_mode(LastD.before).key_bindings
            bound == Key_to_string(key) \in DOMAIN kb.on_key
            fallback == ClassFallback(kb, KeyClass(key))
            msgs == PushedMsgs(LastD)
        IN  /\ bound => msgs = kb.on_key[Key_to_string(key)]
            /\ (~bound /\ fallback # None) => msgs = fallback[1]
            /\ (~bound /\ fallback = None /\ kb.default # None) => msgs = kb.default[1]
            /\ (~bound /\ fallback = None /\ kb.default = None) => msgs = <<>>

\* In mode "number", which binds no alphabetic fallback but a numeric and a
\* special-character one, the unbound key "a" resolved to the default
\* binding.
C15_Witness ==
    /\ dispatched # <<>>
    /\ LastD.e.task.msg = Internal(HandleKey("a"))
    /\ LastD.before.mode = "number"
    /\ "a" \notin DOMAIN App_mode(LastD.before).key_bindings.on_key
    /\ PushedMsgs(LastD) = <<SwitchMode("default")>>

(***************************************************************************)
(* The session without end: the producers never stop enqueuing while the   *)
(* loop drains. Only the latest dispatch is kept as history, and a task is *)
(* numbered with the least number no pending task bears, so a number names *)
(* one task for as long as it is pending.                                  *)
(***************************************************************************)
LiveInputs == {External(Msg0("FocusFirst")), External(Msg0("Terminate"))}

\* app.enqueue(Task::new(priority, msg, None)) with at most MaxPending
\* tasks pending.
SendForever(priority, msg) ==
    LET FreeSeq ==
            CHOOSE s \in 1..(Len(app.tasks) + 1) :
                /\ \A e \in Range(app.tasks) : e.seq # s
                /\ \A t \in 1..(s - 1) : \E e \in Range(app.tasks) : e.seq = t
    IN  /\ outcome = "ok"
        /\ Len(app.tasks) < MaxPending
        /\ app' = enqueue(app, Task(priority, msg, None, now), FreeSeq, "producer")
        /\ last' = <<[op |-> "push", seq |-> FreeSeq]>>
        /\ UNCHANGED <<outcome, now, made, pushes, build, dispatched>>

\* App::possibly_mutate on a scheduler that is not empty.
StepForever ==
    /\ outcome = "ok"
    /\ app.tasks # <<>>
    /\ LET e == heap_pop(app.tasks).item
           r == dispatch([app EXCEPT !.tasks = heap_pop(app.tasks).data], e.task, <<>>, 0)
       IN  /\ app' = r.app
           /\ outcome' = r.res
           /\ last' = <<[op |-> "pop", seq |-> e.seq]>>
           /\ dispatched' = <<[e |-> e, before |-> app, after |-> r.app, res |-> r.res]>>
    /\ UNCHANGED <<now, made, pushes, build>>

\* The loop calls possibly_mutate again and again for as long as it returns
\* Ok.
SpecLive ==
    /\ Start(FALSE, "release")
    /\ [][
           \/ \E priority \in Priorities, msg \in LiveInputs : SendForever(priority, msg)
           \/ \E t \in Time : ClockAdvance(t)
           \/ StepForever
       ]_vars
    /\ WF_vars(StepForever)

Pending(s) == \E e \in Range(app.tasks) : e.seq = s

\* C16: when the loop keeps stepping, every task that has been enqueued is
\* eventually dispatched, unless a Terminate is dispatched first, whatever
\* tasks of whatever priority the producers keep enqueuing meanwhile.
C16_EveryTaskEventuallyDispatched ==
    \A s \in 1..(MaxPending + 1) : Pending(s) ~> (~Pending(s) \/ outcome # "ok")

(***************************************************************************)
(* The effects: handlers append them while the executor drains them.       *)
(***************************************************************************)
EffectInputs == {External(Msg0(t)) : t \in {"Explore", "Refresh", "ClearScreen"}}

SpecEffects ==
    /\ Start(FALSE, "release")
    /\ [][
           \/ \E msg \in EffectInputs : Submit(msg, None, MaxEffectTasks)
           \/ PossiblyMutate
           \/ PopMsgOut
       ]_vars

IsPrefix(s, t) == Len(s) <= Len(t) /\ SubSeq(t, 1, Len(s)) = s

\* C17: effects reach the executor in the order the handlers appended them:
\* a dispatch leaves the effects already queued where they are and appends
\* behind them, and the queue gets shorter only by pop_msg_out handing out
\* its oldest effect and removing it, so that none is delivered twice.
C17_EffectsDeliveredInAppendOrder ==
    [][/\ dispatched' # dispatched => IsPrefix(app.msg_out, app'.msg_out)
       /\ Len(app'.msg_out) < Len(app.msg_out) =>
             /\ last' = <<[op |-> "out", m |-> Head(app.msg_out)]>>
             /\ app'.msg_out = Tail(app.msg_out)]_vars

\* Explore, Refresh and ClearScreen were appended in this order, and the
\* executor has just been handed Explore, with the other two still queued.
C17_Witness ==
    /\ Len(dispatched) = 3
    /\ [i \in 1..3 |-> dispatched[i].e.task.msg.m.t] = <<"Explore", "Refresh", "ClearScreen">>
    /\ last = <<[op |-> "out", m |-> [t |-> "Explore"]]>>
    /\ app.msg_out = <<Refresh, [t |-> "ClearScreen"]>>

\* C18: a step on an empty scheduler succeeds and leaves the whole state as
\* it was; a step on a scheduler that is not empty removes exactly one task,
\* before any task the handler enqueues is pushed, keeps every other pending
\* task, and dispatches the removed task once: it was never dispatched
\* before and is pending no more.
C18_StepPopsExactlyOne ==
    [][/\ (last' # last /\ last' = <<[op |-> "idle"]>>) =>
             (app.tasks = <<>> /\ app' = app /\ outcome' = "ok")
       /\ dispatched' # dispatched =>
             LET d == dispatched'[Len(dispatched')]
             IN  /\ dispatched' = Append(dispatched, d)
                 /\ d.before = app
                 /\ d.after = app'
                 /\ d.e \in Range(app.tasks)
                 /\ d.e \notin Range(app'.tasks)
                 /\ Range(app.tasks) \ {d.e} \subseteq Range(app'.tasks)
                 /\ \A e \in Range(app'.tasks) \ Range(app.tasks) : e.seq > pushes
                 /\ last'[1] = [op |-> "pop", seq |-> d.e.seq]
                 /\ \A i \in 2..Len(last') : last'[i].op = "push"
                 /\ Len(app'.tasks) = Len(app.tasks) - 1 + (Len(last') - 1)
                 /\ \A i \in 1..Len(dispatched) : dispatched[i].e.seq # d.e.seq]_vars

\* A key-pressed was dispatched with another task pending: the step removed
\* it alone and left the pending task and the two tasks handle_key pushed.
C18_Witness ==
    /\ dispatched # <<>>
    /\ LastD.e.task.msg = Internal(HandleKey("s"))
    /\ Len(LastD.before.tasks) = 2
    /\ Len(app.tasks) = 3
    /\ last = <<[op |-> "pop", seq |-> LastD.e.seq], [op |-> "push", seq |-> 3],
                [op |-> "push", seq |-> 4]>>

\* C19: dispatching key-pressed(k) succeeds and enqueues one task per
\* resolved message, in binding order, each of priority 0, carrying the
\* message as an External message and tagged with k; it runs none of them
\* and changes nothing but the scheduler: no effect is appended, and
\* Listings, selection, mode, input buffer and filters stay as they were.
C19_KeyPressedOnlyEnqueues ==
    \A key \in Keys :
      (dispatched # <<>> /\ LastD.e.task.msg = Internal(HandleKey(key))) =>
        LET msgs == resolve_key(LastD.before, key)
            new == Pushed(LastD)
        IN  /\ LastD.res = "ok"
            /\ Len(new) = Len(msgs)
            /\ Len(LastD.after.tasks) = Len(LastD.before.tasks) - 1 + Len(msgs)
            /\ \A i \in 1..Len(new) :
                  /\ new[i].priority = 0
                  /\ new[i].msg = External(msgs[i])
                  /\ new[i].key = Some(key)
            /\ [LastD.after EXCEPT !.tasks = <<>>] = [LastD.before EXCEPT !.tasks = <<>>]

\* The key "s", bound in mode "default" to switch-mode("number") and then
\* focus-first, was dispatched with another task pending.
C19_Witness ==
    /\ dispatched # <<>>
    /\ LastD.e.task.msg = Internal(HandleKey("s"))
    /\ LastD.before.mode = "default"
    /\ Len(LastD.before.tasks) = 2
    /\ PushedMsgs(LastD) = <<SwitchMode("number"), Msg0("FocusFirst")>>
    /\ LastD.after.mode = "default"

\* C20: for every n, also when focus + n exceeds the largest usize,
\* focus-next-by-relative-index(n) succeeds and sets the focus to
\* min(focus + n, max(count, 1) - 1), and
\* focus-previous-by-relative-index(n) succeeds and sets it to
\* max(focus - n, 0), the sums and differences being those of the integers.
C20_RelativeFocusSaturates ==
    \A n \in 0..USIZE_MAX :
      /\ FocusDispatch(MsgN("FocusNextByRelativeIndex", n)) =>
            /\ LastD.res = "ok"
            /\ DirAfter.focus = Min(DirBefore.focus + n, Max(DirBefore.total, 1) - 1)
      /\ FocusDispatch(MsgN("FocusPreviousByRelativeIndex", n)) =>
            /\ LastD.res = "ok"
            /\ DirAfter.focus = Max(DirBefore.focus - n, 0)

RECURSIVE Without(_, _)
\* The sequence s with every occurrence of x taken out.
Without(s, x) ==
    IF s = <<>> THEN <<>>
    ELSE IF Head(s) = x THEN Without(Tail(s), x)
    ELSE <<Head(s)>> \o Without(Tail(s), x)

\* C21: with an entry focused, select appends it at the end of the
\* selection even if it is there already, and un-select removes every entry
\* equal to it and keeps the others in their order; each appends one
\* Refresh effect.
C21_SelectAppendsUnSelectRemovesAll ==
    (dispatched # <<>> /\ focused_node(LastD.before) # None) =>
      LET n == focused_node(LastD.before)[1]
      IN  /\ LastD.e.task.msg = External(Msg0("Select")) =>
                /\ LastD.res = "ok"
                /\ LastD.after.selection = LastD.before.selection \o <<n>>
                /\ LastD.after.msg_out = LastD.before.msg_out \o <<Refresh>>
          /\ LastD.e.task.msg = External(Msg0("UnSelect")) =>
                /\ LastD.res = "ok"
                /\ LastD.after.selection = Without(LastD.before.selection, n)
                /\ n \notin Range(LastD.after.selection)
                /\ LastD.after.msg_out = LastD.before.msg_out \o <<Refresh>>

\* a.txt was selected a second time, and un-select then removed both copies.
C21_Witness ==
    /\ Len(dispatched) >= 2
    /\ PrevD.e.task.msg = External(Msg0("Select"))
    /\ PrevD.before.selection = <<NodeA>>
    /\ LastD.e.task.msg = External(Msg0("UnSelect"))
    /\ LastD.before.selection = <<NodeA, NodeA>>
    /\ LastD.after.selection = <<>>

FiltersBefore == LastD.before.explorer_config.filters

FiltersAfter == LastD.after.explorer_config.filters

\* C22: toggle-node-filter(f) removes every filter equal to f when f is in
\* the Filter Set and appends f at the end when it is not;
\* remove-node-filter(f) removes every filter equal to f; the other filters
\* stay, in their order.
C22_ToggleAndRemoveNodeFilter ==
    \A f \in {HiddenFilter, CaseFilter, NotMdFilter} :
      /\ (dispatched # <<>> /\ LastD.e.task.msg = External(MsgF("ToggleNodeFilter", f))) =>
            /\ LastD.res = "ok"
            /\ f \in Range(FiltersBefore) =>
                  (FiltersAfter = Without(FiltersBefore, f) /\ f \notin Range(FiltersAfter))
            /\ f \notin Range(FiltersBefore) => FiltersAfter = FiltersBefore \o <<f>>
      /\ (dispatched # <<>> /\ LastD.e.task.msg = External(MsgF("RemoveNodeFilter", f))) =>
            /\ LastD.res = "ok"
            /\ FiltersAfter = Without(FiltersBefore, f)
            /\ f \notin Range(FiltersAfter)

\* The hidden-file filter, twice in the Filter Set, was toggled: both copies
\* went.
C22_Witness ==
    /\ dispatched # <<>>
    /\ LastD.e.task.msg = External(MsgF("ToggleNodeFilter", HiddenFilter))
    /\ FiltersBefore = <<HiddenFilter, HiddenFilter>>
    /\ FiltersAfter = <<>>

\* The entries of nodes that pass every filter of the Filter Set.
Visible(filters, nodes) == SelectSeq(nodes, LAMBDA node : ExplorerConfig_apply(filters, node))

\* C23: after reset-node-filters, from any Filter Set, the Filter Set is the
\* single case-insensitive filter 'relative path does not start with "."'
\* when show_hidden is off and empty when it is on; under that single
\* filter an entry is visible iff its relative path does not start with
\* ".", so that of [.git, README.md] only README.md is visible.
C23_ResetNodeFilters ==
    LET default == <<[filter |-> "RelativePathDoesNotStartWith", input |-> <<".">>,
                      case_sensitive |-> FALSE]>>
    IN  /\ (dispatched # <<>> /\ LastD.e.task.msg = External(Msg0("ResetNodeFilters"))) =>
              /\ LastD.res = "ok"
              /\ ~LastD.before.config.general.show_hidden => FiltersAfter = default
              /\ LastD.before.config.general.show_hidden => FiltersAfter = <<>>
        /\ \A e \in EntryUniverse :
              ExplorerConfig_apply(default, e) <=> e.relative_path[1] # "."
        /\ Visible(default, <<NodeGit, NodeReadme>>) = <<NodeReadme>>

\* With show_hidden off, reset-node-filters was dispatched on a Filter Set
\* of two filters, and the Filter Set it left hides .git and shows
\* README.md.
C23_Witness ==
    /\ dispatched # <<>>
    /\ LastD.e.task.msg = External(Msg0("ResetNodeFilters"))
    /\ ~LastD.before.config.general.show_hidden
    /\ Len(FiltersBefore) = 2
    /\ Len(app.explorer_config.filters) = 1
    /\ Visible(app.explorer_config.filters, <<NodeGit, NodeReadme>>) = <<NodeReadme>>

\* C24: change-directory(d) with d an existing directory sets pwd to d and
\* appends exactly one Refresh effect and no Explore effect; it enqueues no
\* task.
C24_ChangeDirectoryToDirectory ==
    (/\ dispatched # <<>>
     /\ LastD.e.task.msg.kind = "External"
     /\ LastD.e.task.msg.m.t = "ChangeDirectory"
     /\ is_dir(LastD.e.task.msg.m.s)) =>
      /\ LastD.res = "ok"
      /\ LastD.after.pwd = LastD.e.task.msg.m.s
      /\ LastD.after.msg_out = LastD.before.msg_out \o <<[t |-> "Refresh"]>>
      /\ Len(LastD.after.tasks) = Len(LastD.before.tasks) - 1
      /\ Range(LastD.after.tasks) \subseteq Range(LastD.before.tasks)

\* change-directory("/tmp/d") was dispatched in /tmp with an effect already
\* queued.
C24_Witness ==
    /\ dispatched # <<>>
    /\ LastD.e.task.msg = External(MsgS("ChangeDirectory", TMP_D))
    /\ LastD.before.pwd = TMP
    /\ LastD.before.msg_out # <<>>
    /\ LastD.after.pwd = TMP_D

\* C25: enter changes pwd to the absolute path of the focused entry exactly
\* when an entry is focused and that path is an existing directory; back
\* changes pwd to the parent of pwd exactly when pwd has a parent that is an
\* existing directory; in every other case the whole state, effect queue
\* included, is left as it was.
C25_EnterAndBack ==
    /\ (dispatched # <<>> /\ LastD.e.task.msg = External(Msg0("Enter"))) =>
          LET n == focused_node(LastD.before)
          IN  /\ LastD.res = "ok"
              /\ (n # None /\ is_dir(n[1].absolute_path)) =>
                    LastD.after.pwd = n[1].absolute_path
              /\ ~(n # None /\ is_dir(n[1].absolute_path)) => OnlyPopped(LastD)
    /\ (dispatched # <<>> /\ LastD.e.task.msg = External(Msg0("Back"))) =>
          LET p == path_parent(LastD.before.pwd)
          IN  /\ LastD.res = "ok"
              /\ (p # None /\ is_dir(p[1])) => LastD.after.pwd = p[1]
              /\ ~(p # None /\ is_dir(p[1])) => OnlyPopped(LastD)

\* enter went from /tmp into the focused directory /tmp/d, and back
\* returned to /tmp.
C25_Witness ==
    /\ Len(dispatched) >= 2
    /\ PrevD.e.task.msg = External(Msg0("Enter"))
    /\ PrevD.before.pwd = TMP
    /\ PrevD.after.pwd = TMP_D
    /\ LastD.e.task.msg = External(Msg0("Back"))
    /\ LastD.after.pwd = TMP

(***************************************************************************)
(* The commands that take their argument from the input buffer or from the *)
(* key of their task, with the buffer unset, unreadable as a number, or a  *)
(* number, and with no key, a key without a character, or a character key. *)
(***************************************************************************)
FromInputs ==
    {<<Internal(AddDirectory(TMP, DirectoryBuffer(TMP, <<NodeA, NodeB, NodeC>>, 1))), None>>}
    \cup {<<External(MsgS("SetInputBuffer", s)), None>> : s \in {<<"x">>, <<"1">>}}
    \cup {<<External(Msg0(t)), None>> :
            t \in {"FocusByIndexFromInput", "FocusNextByRelativeIndexFromInput",
                   "FocusPreviousByRelativeIndexFromInput", "FocusPathFromInput"}}
    \cup {<<External(MsgF("AddNodeFilterFromInput",
                          [filter |-> "RelativePathDoesContain", case_sensitive |-> FALSE])),
            None>>}
    \cup {<<External(Msg0("BufferInputFromKey")), key>> : key \in {None, Some("enter"), Some("a")}}

SpecFromInput ==
    /\ Start(FALSE, "release")
    /\ [][(\E in \in FromInputs : Submit(in[1], in[2], MaxFromInputTasks))
            \/ PossiblyMutate]_vars

\* C26: a command that takes its argument from the input buffer or from the
\* key of its task leaves the whole state, effect queue included, as it was
\* when the argument is not there: the three focus commands that read an
\* index when the buffer is unset or is no unsigned integer,
\* add-node-filter-from-input and focus-path-from-input when the buffer is
\* unset, buffer-input-from-key when the task has no key or the key has no
\* character form.
C26_FromInputWithoutArgumentIsNoOp ==
    (dispatched # <<>> /\ LastD.e.task.msg.kind = "External") =>
      LET t == LastD.e.task.msg.m.t
          buf == LastD.before.input_buffer
          key == LastD.e.task.key
      IN  /\ (/\ t \in {"FocusByIndexFromInput", "FocusNextByRelativeIndexFromInput",
                        "FocusPreviousByRelativeIndexFromInput"}
              /\ (buf = None \/ parse_usize(buf[1]) = None)) =>
                (LastD.res = "ok" /\ OnlyPopped(LastD))
          /\ (t \in {"AddNodeFilterFromInput", "FocusPathFromInput"} /\ buf = None) =>
                (LastD.res = "ok" /\ OnlyPopped(LastD))
          /\ (t = "BufferInputFromKey" /\ (key = None \/ Key_to_char(key[1]) = None)) =>
                (LastD.res = "ok" /\ OnlyPopped(LastD))

\* focus-by-index-from-input was dispatched with the buffer holding "x" and
\* the focus on the second of three entries.
C26_Witness ==
    /\ dispatched # <<>>
    /\ LastD.e.task.msg = External(Msg0("FocusByIndexFromInput"))
    /\ LastD.before.input_buffer = Some(<<"x">>)
    /\ directory_buffer(LastD.before) # None
    /\ directory_buffer(LastD.after)[1].focus = 1

(***************************************************************************)
(* Directories explored again: /tmp is listed with two entries and with    *)
(* a.txt alone, now read-only; /tmp/d is listed too, and the user toggles  *)
(* the selection, moves the focus and changes between the directories.     *)
(***************************************************************************)
NodeAReadonly == Node(TMP, A_TXT, TRUE)

DirInputs ==
    {Internal(AddDirectory(TMP, DirectoryBuffer(TMP, <<NodeA, NodeB>>, 0))),
     Internal(AddDirectory(TMP, DirectoryBuffer(TMP, <<NodeAReadonly>>, 0))),
     Internal(AddDirectory(TMP_D, DirectoryBuffer(TMP_D, <<Node(TMP_D, A_TXT, FALSE)>>, 0)))}
    \cup {External(Msg0(t)) : t \in {"ToggleSelection", "FocusNext"}}
    \cup {External(MsgS("ChangeDirectory", s)) : s \in {TMP, TMP_D}}

SpecDirs ==
    /\ Start(FALSE, "release")
    /\ [][(\E msg \in DirInputs : Submit(msg, None, MaxDirTasks)) \/ PossiblyMutate]_vars

\* C27: directory-added(p, L) makes L, as it is, the Listing of p, whatever
\* Listing p had, leaves the Listing of every other path and pwd as they
\* were and appends one Refresh effect; and no dispatch of any message
\* removes a path from the map of Listings.
C27_DirectoryAddedReplacesListing ==
    dispatched # <<>> =>
      LET before == LastD.before.directory_buffers
          after == LastD.after.directory_buffers
          msg == LastD.e.task.msg
      IN  /\ DOMAIN before \subseteq DOMAIN after
          /\ (msg.kind = "Internal" /\ msg.m.t = "AddDirectory") =>
                /\ LastD.res = "ok"
                /\ DOMAIN after = DOMAIN before \cup {msg.m.parent}
                /\ after[msg.m.parent] = msg.m.dir
                /\ \A q \in DOMAIN before \ {msg.m.parent} : after[q] = before[q]
                /\ LastD.after.pwd = LastD.before.pwd
                /\ LastD.after.msg_out = LastD.before.msg_out \o <<[t |-> "Refresh"]>>

\* With /tmp/d listed and the focus of /tmp moved to its second entry, /tmp
\* was listed again and has the new Listing's focus 0.
C27_Witness ==
    /\ dispatched # <<>>
    /\ LastD.e.task.msg = Internal(AddDirectory(TMP, DirectoryBuffer(TMP, <<NodeA, NodeB>>, 0)))
    /\ DOMAIN LastD.before.directory_buffers = {TMP, TMP_D}
    /\ LastD.before.directory_buffers[TMP].focus = 1
    /\ app.directory_buffers[TMP].focus = 0

\* C29: the selection, empty at first and changed by toggle-selection only,
\* never holds two entries of the same absolute path, however the toggles
\* interleave with focus moves, directory changes and directories listed
\* again with the same paths and other metadata.
C29_ToggledSelectionHasDistinctPaths ==
    \A i, j \in 1..Len(app.selection) :
       i # j => app.selection[i].absolute_path # app.selection[j].absolute_path

\* TRUE for a dispatch of change-directory, enter or back.
IsDirectoryChange(d) ==
    /\ d.e.task.msg.kind = "External"
    /\ d.e.task.msg.m.t \in {"ChangeDirectory", "Enter", "Back"}

\* C30: change-directory, enter and back change pwd and the effect queue
\* only: all Listings, the selection, the mode, the input buffer, the
\* Filter Set, the logs and the pending tasks stay as they were; so a
\* directory left and come back to by these commands has the focus index it
\* had.
C30_DirectoryChangesKeepListings ==
    /\ (dispatched # <<>> /\ IsDirectoryChange(LastD)) =>
          LastD.after = [LastD.before EXCEPT !.pwd = LastD.after.pwd,
                                             !.msg_out = LastD.after.msg_out,
                                             !.tasks = heap_pop(LastD.before.tasks).data]
    /\ \A i, j \in 1..Len(dispatched) :
          (/\ i <= j
           /\ \A k \in i..j : IsDirectoryChange(dispatched[k])
           /\ dispatched[j].after.pwd = dispatched[i].before.pwd
           /\ dispatched[i].before.pwd \in DOMAIN dispatched[i].before.directory_buffers) =>
             dispatched[j].after.directory_buffers[dispatched[i].before.pwd].focus
               = dispatched[i].before.directory_buffers[dispatched[i].before.pwd].focus

\* /tmp, with the focus on its second entry, was left for /tmp/d and come
\* back to: the focus is on the second entry.
C30_Witness ==
    /\ Len(dispatched) = 3
    /\ dispatched[2].e.task.msg = External(MsgS("ChangeDirectory", TMP_D))
    /\ TMP \in DOMAIN dispatched[2].before.directory_buffers
    /\ dispatched[2].before.directory_buffers[TMP].focus = 1
    /\ dispatched[2].after.pwd = TMP_D
    /\ LastD.e.task.msg = External(Msg0("Back"))
    /\ app.pwd = TMP
    /\ app.directory_buffers[TMP].focus = 1

\* TRUE for a dispatch of a key-pressed task a producer enqueued.
IsKeyPress(d) ==
    /\ d.e.by = "producer"
    /\ d.e.task.msg.kind = "Internal"
    /\ d.e.task.msg.m.t = "HandleKey"

\* The mode named by the last switch-mode to a mode of the table among the
\* messages msgs, or none.
LastSwitch(msgs) ==
    LET at == {n \in 1..Len(msgs) : msgs[n].t = "SwitchMode" /\ msgs[n].mode \in DOMAIN ConfigModes}
    IN  IF at = {} THEN None ELSE Some(msgs[CHOOSE n \in at : \A o \in at : o <= n].mode)

\* C28: when key-pressed task k1 is enqueued before key-pressed task k2 at
\* the same priority, every task made by resolving k1 is dispatched before
\* k2 is resolved; so when k1's binding switches to a mode of the table, k2
\* is resolved against the bindings of that mode.
C28_KeysApplyInTypingOrder ==
    \A i, j \in 1..Len(dispatched) :
       (/\ i < j
        /\ IsKeyPress(dispatched[i])
        /\ IsKeyPress(dispatched[j])
        /\ dispatched[i].e.seq < dispatched[j].e.seq
        /\ dispatched[i].e.task.priority = dispatched[j].e.task.priority) =>
          /\ \A e \in Range(dispatched[i].after.tasks) \ Range(dispatched[i].before.tasks) :
                \E k \in (i + 1)..(j - 1) : dispatched[k].e = e
          /\ ((\A k \in (i + 1)..(j - 1) : ~IsKeyPress(dispatched[k]))
                /\ LastSwitch(PushedMsgs(dispatched[i])) # None) =>
                dispatched[j].before.mode = LastSwitch(PushedMsgs(dispatched[i]))[1]

(***************************************************************************)
(* pwd without a Listing, or with an empty one: /tmp is listed with a.txt  *)
(* alone and again with no entry, /tmp/d is never listed, and the user     *)
(* moves the focus, selects and changes to /tmp/d.                         *)
(***************************************************************************)
NoListingInputs ==
    {Internal(AddDirectory(TMP, DirectoryBuffer(TMP, nodes, 0))) : nodes \in {<<NodeA>>, <<>>}}
    \cup {External(MsgS("ChangeDirectory", TMP_D))}
    \cup {External(Msg0(t)) : t \in {"FocusFirst", "FocusNext", "FocusPrevious",
                                     "Select", "UnSelect", "ToggleSelection"}}
    \cup {External(MsgN(t, 1)) : t \in {"FocusNextByRelativeIndex", "FocusByIndex"}}
    \cup {External(MsgS("FocusByFileName", A_TXT))}

SpecNoListing ==
    /\ Start(FALSE, "release")
    /\ [][(\E msg \in NoListingInputs : Submit(msg, None, MaxNoListingTasks))
            \/ PossiblyMutate]_vars

====
